---------------------------- MODULE Spec2Model ----------------------------
(***************************************************************************)
(* A model of the risk scorer of the NIST AI risk toolkit                  *)
(* (src/src/risk_scorer.py): the weighted-factor score, the per-library    *)
(* vulnerability lookup with its pattern fallback, and the economic stress *)
(* multiplier with its one-hour cache.                                     *)
(*                                                                         *)
(* Representation.                                                         *)
(*  - A Python str is a tuple of one-character strings, so that lower()    *)
(*    and the substring test `pat in s` are computed, not assumed.         *)
(*  - A Python float multiplier is an integer count of thousandths         *)
(*    (1.0 = 1000).  The doubles 1.1+0.1, 1.1+0.3, 1.3+0.1 and 1.8+0.1 lie  *)
(*    one ulp or two above 1.2, 1.4, 1.4 and 1.9; FloatAdd keeps that      *)
(*    excess as one thousandth, so that `multiplier > 1.2` answers as it   *)
(*    does in Python.  For every base score 0..100 the truncation          *)
(*    int(base * multiplier) of these doubles equals the integer           *)
(*    quotient computed here.                                              *)
(*  - Optional[float] is a tuple: <<>> is None, <<v>> is the value v,     *)
(*    in tenths (a VIX of 20.1 is 201, a GDP growth of -2.1 % is -21).     *)
(*  - A dict is a function whose DOMAIN is its set of keys.                *)
(*  - Time is in whole seconds.                                            *)
(***************************************************************************)
EXTENDS Integers, Sequences, FiniteSets, TLC

VARIABLES
    config,     \* the system description handed to assess_system
    nvd,        \* what the NVD API answers for each library name
    fred,       \* FRED_API_KEY being set, and what FRED answers per series
    cache,      \* RiskScorer.economic_stress_cache
    now,        \* the clock, datetime.utcnow().timestamp()
    result,     \* what the last assess_system call returned (and received)
    prior,      \* the result returned before the caller's last flag edit
    th,         \* per thread: where it is in its call, and its locals
    returned,   \* per thread: what its last call returned
    produced,   \* the multipliers some fetch or fallback has produced
    stored,     \* the level and time of the last store into the cache
    request,    \* the last call of the mapper, the planner or the API
    response    \* what that call returned, or the error it raised

seqVars == <<config, nvd, fred, cache, now, result, prior>>

thrVars == <<th, returned, produced, stored>>

appVars == <<request, response>>

-----------------------------------------------------------------------------
(* Python strings *)

UpperChars == <<"A","B","C","D","E","F","G","H","I","J","K","L","M","N","O","P","Q","R","S","T","U","V","W","X","Y","Z">>

LowerChars == <<"a","b","c","d","e","f","g","h","i","j","k","l","m","n","o","p","q","r","s","t","u","v","w","x","y","z">>

LowerChar(c) ==
    IF \E i \in 1..Len(UpperChars) : UpperChars[i] = c
    THEN LowerChars[CHOOSE i \in 1..Len(UpperChars) : UpperChars[i] = c]
    ELSE c

\* str.lower()
Lower(s) == [i \in 1..Len(s) |-> LowerChar(s[i])]

\* pat in s
Contains(pat, s) ==
    \E i \in 1..(Len(s) - Len(pat) + 1) : SubSeq(s, i, i + Len(pat) - 1) = pat

\* any(pattern in s for pattern in pats)
AnyIn(pats, s) == \E k \in 1..Len(pats) : Contains(pats[k], s)

\* Mutant: an absent key reads as False whatever the default given.
GetOrFalse(d, key, default) == IF key \in DOMAIN d THEN d[key] ELSE FALSE

\* dict.get(key, default)
Get(d, key, default) == IF key \in DOMAIN d THEN d[key] ELSE default

Min(a, b) == IF a <= b THEN a ELSE b

Max(a, b) == IF a >= b THEN a ELSE b

-----------------------------------------------------------------------------
(* Floats, in thousandths *)

Unit == 1000

\* The pairs (a, b) whose double sum a + b lies above the decimal sum.
InexactSums == {<<1100, 100>>, <<1100, 300>>, <<1300, 100>>, <<1800, 100>>}

\* a + b on doubles
FloatAdd(a, b) == a + b + (IF <<a, b>> \in InexactSums THEN 1 ELSE 0)

\* int(n * m): truncation of the product of an int and a float m >= 0
IntOfProduct(n, m) == (n * m) \div Unit

\* f"{m:.1f}", as a count of tenths
FormatOneDecimal(m) == (m + 50) \div 100

-----------------------------------------------------------------------------
(* The vulnerability lookup, one library at a time *)

\* Library names a description may list.
LibTensorFlow == <<"t","e","n","s","o","r","f","l","o","w">>

LibPyTorch == <<"p","y","t","o","r","c","h">>

LibUnknown1 == <<"u","n","k","n","o","w","n","1">>

LibUnknown2 == <<"u","n","k","n","o","w","n","2">>

LibOpenCV == <<"O","p","e","n","C","V","-","P","y","t","h","o","n">>

LibDjangoPandas == <<"d","j","a","n","g","o","-","p","a","n","d","a","s">>

LibNames ==
    {LibTensorFlow, LibPyTorch, LibUnknown1, LibUnknown2, LibOpenCV, LibDjangoPandas}

\* What requests.get(url, params, timeout=5) and response.json() can come to:
\* the call raises (timeout, connection error), the body is no JSON object of
\* the expected shape, or a status and the CVSS base scores of the CVEs found
\* (in tenths; 0 stands for a CVE without a base score).
NvdRaises == [kind |-> "raises", status_code |-> 0, cvss |-> <<>>]

NvdMalformed == [kind |-> "malformed", status_code |-> 200, cvss |-> <<>>]

NvdStatus(code) == [kind |-> "http", status_code |-> code, cvss |-> <<>>]

NvdFound(scores) == [kind |-> "http", status_code |-> 200, cvss |-> scores]

\* The lookup did not produce vulnerability data for the library.
NvdUnavailable(resp) ==
    resp.kind = "raises" \/ resp.kind = "malformed" \/ resp.status_code # 200

high_risk_patterns ==
    << <<"t","e","n","s","o","r","f","l","o","w">>,
       <<"p","y","t","o","r","c","h">>,
       <<"s","c","i","k","i","t","-","l","e","a","r","n">>,
       <<"n","u","m","p","y">>,
       <<"p","a","n","d","a","s">> >>

medium_risk_patterns ==
    << <<"r","e","q","u","e","s","t","s">>,
       <<"f","l","a","s","k">>,
       <<"d","j","a","n","g","o">>,
       <<"p","i","l","l","o","w">>,
       <<"o","p","e","n","c","v">> >>

fallback_library_risk(library_name) ==
    LET lib_lower == Lower(library_name)
    IN  IF AnyIn(high_risk_patterns, lib_lower) THEN 3
        ELSE IF AnyIn(medium_risk_patterns, lib_lower) THEN 2
        ELSE 1

\* The first ten CVEs of the answer that carry a base score (lines 185-199).
Scored(cvss) == {i \in 1..Min(Len(cvss), 10) : cvss[i] # 0}

CriticalCount(cvss) == Cardinality({i \in Scored(cvss) : cvss[i] >= 90})

HighCount(cvss) == Cardinality({i \in Scored(cvss) : cvss[i] < 90 /\ cvss[i] >= 70})

MediumCount(cvss) == Cardinality({i \in Scored(cvss) : cvss[i] < 70 /\ cvss[i] >= 40})

SeverityScore(critical_count, high_count, medium_count) ==
    IF critical_count >= 3 THEN 8
    ELSE IF critical_count >= 2 THEN 7
    ELSE IF critical_count >= 1 THEN 6
    ELSE IF high_count >= 3 THEN 5
    ELSE IF high_count >= 2 THEN 4
    ELSE IF high_count >= 1 \/ medium_count >= 3 THEN 3
    ELSE IF medium_count >= 2 THEN 2
    ELSE IF medium_count >= 1 THEN 1
    ELSE 0

\* Mutant: a status other than 200 is not told from an empty answer, which
\* scores 0.
get_library_vulnerability_score_unchecked(library_name, resp) ==
    IF resp.kind = "raises" THEN fallback_library_risk(library_name)
    ELSE IF resp.kind = "malformed" THEN fallback_library_risk(library_name)
    ELSE SeverityScore(CriticalCount(resp.cvss), HighCount(resp.cvss),
                       MediumCount(resp.cvss))

get_library_vulnerability_score(library_name, resp) ==
    IF resp.kind = "raises" THEN fallback_library_risk(library_name)
    ELSE IF resp.status_code # 200 THEN fallback_library_risk(library_name)
    ELSE IF resp.kind = "malformed" THEN fallback_library_risk(library_name)
    ELSE IF resp.cvss = <<>> THEN fallback_library_risk(library_name)
    ELSE SeverityScore(CriticalCount(resp.cvss), HighCount(resp.cvss),
                       MediumCount(resp.cvss))

\* The per-library scores of a list, in list order.
LibraryScores(libraries, answers) ==
    [i \in 1..Len(libraries) |->
        get_library_vulnerability_score(libraries[i], answers[libraries[i]])]

RECURSIVE SumSeq(_)
SumSeq(s) == IF s = <<>> THEN 0 ELSE Head(s) + SumSeq(Tail(s))

\* Mutant: the per-library scores are averaged, not summed.
assess_third_party_risk_average(libraries, answers) ==
    IF libraries = <<>> THEN 0
    ELSE
      LET scores == LibraryScores(libraries, answers)
          high_risk_libs == Cardinality({i \in 1..Len(scores) : scores[i] >= 5})
          volume == IF Len(libraries) > 15 THEN 5
                    ELSE IF Len(libraries) > 10 THEN 3
                    ELSE IF Len(libraries) > 5 THEN 1
                    ELSE 0
          concentration == IF high_risk_libs > 3 THEN 3
                           ELSE IF high_risk_libs > 1 THEN 1
                           ELSE 0
      IN  Min(SumSeq(scores) \div Len(scores) + volume + concentration, 20)

\* Mutant: the clamp of line 149 left out.
assess_third_party_risk_unclamped(libraries, answers) ==
    IF libraries = <<>> THEN 0
    ELSE
      LET scores == LibraryScores(libraries, answers)
          high_risk_libs == Cardinality({i \in 1..Len(scores) : scores[i] >= 5})
          volume == IF Len(libraries) > 15 THEN 5
                    ELSE IF Len(libraries) > 10 THEN 3
                    ELSE IF Len(libraries) > 5 THEN 1
                    ELSE 0
          concentration == IF high_risk_libs > 3 THEN 3
                           ELSE IF high_risk_libs > 1 THEN 1
                           ELSE 0
      IN  SumSeq(scores) + volume + concentration

\* Mutant: an empty library list contributes a floor of one point.
assess_third_party_risk_floor(libraries, answers) ==
    IF libraries = <<>> THEN 1
    ELSE Min(SumSeq(LibraryScores(libraries, answers)), 20)

assess_third_party_risk(libraries, answers) ==
    IF libraries = <<>> THEN 0
    ELSE
      LET scores == LibraryScores(libraries, answers)
          high_risk_libs == Cardinality({i \in 1..Len(scores) : scores[i] >= 5})
          volume == IF Len(libraries) > 15 THEN 5
                    ELSE IF Len(libraries) > 10 THEN 3
                    ELSE IF Len(libraries) > 5 THEN 1
                    ELSE 0
          concentration == IF high_risk_libs > 3 THEN 3
                           ELSE IF high_risk_libs > 1 THEN 1
                           ELSE 0
      IN  Min(SumSeq(scores) + volume + concentration, 20)

-----------------------------------------------------------------------------
(* The economic stress multiplier *)

\* What the FRED request for one series comes to: requests.get raises,
\* raise_for_status raises, the body is not the expected JSON, there is no
\* observation, the latest observation is the placeholder ".", or a value.
\* The failures are told apart no further than the code does.
FredFailure(how) == [kind |-> how, value |-> 0]

FredValue(v) == [kind |-> "value", value |-> v]

FredFailureKinds == {"raises", "malformed", "dot"}

\* Returns Optional[float]: <<>> is None.
fetch_fred_series(resp) == IF resp.kind = "value" THEN <<resp.value>> ELSE <<>>

calculate_stress_multiplier(vix, gdp_growth) ==
    LET m0 == Unit
        m1 == IF vix # <<>>
              THEN IF vix[1] > 400 THEN FloatAdd(m0, 800)
                   ELSE IF vix[1] > 300 THEN FloatAdd(m0, 500)
                   ELSE IF vix[1] > 250 THEN FloatAdd(m0, 300)
                   ELSE IF vix[1] > 200 THEN FloatAdd(m0, 100)
                   ELSE m0
              ELSE m0
    IN  IF gdp_growth # <<>>
        THEN IF gdp_growth[1] < -20 THEN FloatAdd(m1, 700)
             ELSE IF gdp_growth[1] < 0 THEN FloatAdd(m1, 500)
             ELSE IF gdp_growth[1] < 10 THEN FloatAdd(m1, 300)
             ELSE IF gdp_growth[1] < 20 THEN FloatAdd(m1, 100)
             ELSE m1
        ELSE m1

fallback_multiplier == 1200

fallback_economic_stress == Max(Unit, Min(fallback_multiplier, 2 * Unit))

\* Mutant: the bounds of line 312 left out.
fetch_economic_stress_indicator_unbounded(provider) ==
    IF ~provider.key THEN fallback_economic_stress
    ELSE calculate_stress_multiplier(fetch_fred_series(provider.vix),
                                     fetch_fred_series(provider.gdp))

\* No statement of the try block raises (fetch_fred_series catches its own
\* exceptions), so the except branch at line 314 is never entered.
fetch_economic_stress_indicator(provider) ==
    IF ~provider.key THEN fallback_economic_stress
    ELSE LET vix_data == fetch_fred_series(provider.vix)
             gdp_data == fetch_fred_series(provider.gdp)
             stress_multiplier == calculate_stress_multiplier(vix_data, gdp_data)
         IN  Max(Unit, Min(stress_multiplier, 2 * Unit))

CacheTTL == 3600

EmptyCache == [k \in {} |-> 0]

\* Mutant: the cache is emptied and filled key by key, and a reader finds
\* it with the stress level but no timestamp yet.
CacheEntryLevelOnly(stress_level, timestamp) ==
    [k \in {"stress_level"} |-> stress_level]

\* The dict assigned at line 279.
CacheEntry(stress_level, timestamp) ==
    [k \in {"stress_level", "timestamp"} |->
        IF k = "stress_level" THEN stress_level ELSE timestamp]

\* Mutant: an entry exactly one hour old still counts as fresh.
CacheFreshInclusive(c, current_time) ==
    /\ "stress_level" \in DOMAIN c
    /\ current_time - Get(c, "timestamp", 0) <= CacheTTL

\* The test of lines 267-272: the cached value is used.
CacheFresh(c, current_time) ==
    /\ "stress_level" \in DOMAIN c
    /\ current_time - Get(c, "timestamp", 0) < CacheTTL

\* Mutant: a cache hit returns the normal-conditions default.
CachedStressDefault(c) == Unit

\* What a cache hit returns (line 273).
CachedStress(c) == c["stress_level"]

\* The multiplier returned by a call that reads the clock as current_time,
\* and the cache it leaves when its store reads the clock as store_time.
\* No statement of the try block raises, so the `return 1.0` of line 288 is
\* never reached.
get_economic_stress_multiplier(c, provider, current_time, store_time) ==
    IF CacheFresh(c, current_time)
    THEN [value |-> CachedStress(c), cache |-> c, fetched |-> FALSE]
    ELSE LET stress_level == fetch_economic_stress_indicator(provider)
         IN  [value |-> stress_level,
              cache |-> CacheEntry(stress_level, store_time),
              fetched |-> TRUE]

-----------------------------------------------------------------------------
(* assess_system *)

black_box_terms ==
    << <<"n","e","u","r","a","l">>, <<"d","e","e","p">>, <<"b","l","a","c","k">> >>

\* An entry of risk_factors: its text and, for the stress note, the
\* multiplier as f"{economic_multiplier:.1f}" prints it (in tenths).
Factor(text) == [text |-> text, arg |-> 0]

StressFactor(m) ==
    [text |-> "Elevated economic stress (multiplier: )", arg |-> FormatOneDecimal(m)]

Append1(cond, seq, x) == IF cond THEN Append(seq, x) ELSE seq

\* Mutant: the test without its `not`.
InsecureInverted(system_config, key, default) == Get(system_config, key, default)

\* not system_config.get(key, default)
Insecure(system_config, key, default) == ~Get(system_config, key, default)

\* Mutant: the cap of line 98 left out.
CapScoreMissing(risk_score) == risk_score

\* min(risk_score, 100), line 98
CapScore(risk_score) == Min(risk_score, 100)

\* Lines 55-109, given the multiplier line 90 obtained.
assess_system(system_config, answers, economic_multiplier) ==
    LET lineage == Insecure(system_config, "data_lineage_documented", FALSE)
        model_type == Lower(Get(system_config, "model_type", <<>>))
        black_box == AnyIn(black_box_terms, model_type)
        drift == Insecure(system_config, "drift_monitoring_enabled", FALSE)
        third_party_risk ==
            assess_third_party_risk(Get(system_config, "third_party_libs", <<>>), answers)
        encryption == Insecure(system_config, "data_encryption", TRUE)
        access == Insecure(system_config, "access_controls", TRUE)
        base_score == (IF lineage THEN 20 ELSE 0) + (IF black_box THEN 15 ELSE 0)
                      + (IF drift THEN 25 ELSE 0) + third_party_risk
                      + (IF encryption THEN 10 ELSE 0) + (IF access THEN 5 ELSE 0)
        f1 == Append1(lineage, <<>>, Factor("Missing data lineage documentation"))
        f2 == Append1(black_box, f1, Factor("Black-box model with limited explainability"))
        f3 == Append1(drift, f2, Factor("No ML model drift monitoring"))
        f4 == Append1(third_party_risk > 10, f3, Factor("High-risk third-party dependencies"))
        f5 == Append1(encryption, f4, Factor("Data encryption not implemented"))
        f6 == Append1(access, f5, Factor("Insufficient access controls"))
        f7 == Append1(economic_multiplier > 1200, f6, StressFactor(economic_multiplier))
        f8 == Append1(base_score > 95, f7,
                      Factor("Note: Base risk factors exceed design parameters"))
    IN  [overall_risk_score |-> CapScore(IntOfProduct(base_score, economic_multiplier)),
         risk_factors |-> f8,
         economic_multiplier |-> economic_multiplier,
         base_score |-> base_score]

-----------------------------------------------------------------------------
(* The inputs *)

FlagKeys ==
    {"data_lineage_documented", "drift_monitoring_enabled", "data_encryption",
     "access_controls"}

\* The flags a description gives: all four, the two without a secure default,
\* or none.
FlagDomains == {FlagKeys, {"data_lineage_documented", "drift_monitoring_enabled"}, {}}

ModelDeepNeural == <<"D","e","e","p"," ","N","e","u","r","a","l"," ","N","e","t","w","o","r","k">>

ModelLinear == <<"L","i","n","e","a","r"," ","R","e","g","r","e","s","s","i","o","n">>

ModelEnsemble == <<"R","a","n","d","o","m"," ","F","o","r","e","s","t"," ","E","n","s","e","m","b","l","e">>

ModelTypes == {ModelDeepNeural, ModelLinear, ModelEnsemble}

LibraryLists ==
    { <<>>,
      <<LibOpenCV>>,
      <<LibDjangoPandas, LibUnknown1>>,
      <<LibTensorFlow, LibPyTorch, LibUnknown1, LibUnknown2>> }

Description(flags, model_type, libs) ==
    [k \in DOMAIN flags \cup {"model_type", "third_party_libs"} |->
        IF k = "model_type" THEN model_type
        ELSE IF k = "third_party_libs" THEN libs
        ELSE flags[k]]

Configs ==
    {Description(flags, m, l) :
        flags \in UNION {[D -> BOOLEAN] : D \in FlagDomains},
        m \in ModelTypes, l \in LibraryLists}

\* The descriptions of test_assess_high_risk_system and
\* test_assess_low_risk_system.
HighRiskConfig ==
    Description([k \in FlagKeys |-> FALSE], ModelDeepNeural,
                <<LibTensorFlow, LibPyTorch, LibUnknown1, LibUnknown2>>)

LowRiskConfig == Description([k \in FlagKeys |-> TRUE], ModelLinear, <<>>)

\* What NVD holds for each library when it answers.
NvdDatabase ==
    [l \in LibNames |->
        IF l = LibTensorFlow THEN NvdFound(<<98, 91, 75, 0, 93>>)
        ELSE IF l = LibPyTorch THEN NvdFound(<<75, 90>>)
        ELSE IF l = LibOpenCV THEN NvdFound(<<88, 75, 70, 50>>)
        ELSE IF l = LibDjangoPandas THEN NvdFound(<<>>)
        ELSE IF l = LibUnknown1 THEN NvdFound(<<55, 40, 39>>)
        ELSE NvdFound(<<0, 39>>)]

\* NVD answers every lookup, fails every lookup in one way, or fails one.
NvdWorlds ==
    {NvdDatabase}
    \cup {[l \in LibNames |-> r] : r \in {NvdRaises, NvdMalformed, NvdStatus(503)}}
    \cup {[NvdDatabase EXCEPT ![LibTensorFlow] = NvdRaises]}

VixValues == {200, 201, 301, 401}

GdpValues == {-21, -1, 19, 20}

FredFailures == {FredFailure(k) : k \in FredFailureKinds}

NoKey == [key |-> FALSE, vix |-> FredFailure("raises"), gdp |-> FredFailure("raises")]

WithKey(vix, gdp) == [key |-> TRUE, vix |-> vix, gdp |-> gdp]

FredWorlds ==
    {NoKey}
    \cup {WithKey(v, g) :
            v \in FredFailures \cup {FredValue(x) : x \in VixValues},
            g \in FredFailures \cup {FredValue(x) : x \in GdpValues}}

\* The instants the clock is read at: each hour boundary, a second before
\* it and a second after it.
MaxHours == 1

Instants == {t \in {k * CacheTTL + e : k \in 0..MaxHours, e \in {-1, 0, 1}} : t >= 0}

-----------------------------------------------------------------------------
(* The scorer, one call at a time *)

NoResult == [called |-> FALSE]

\* What assess_system returns, with what the call was given: the description,
\* whether FRED was asked, the clock, and the scores the library loop got.
Returned(cfg, m) ==
    [called |-> TRUE, config |-> cfg, fetched |-> m.fetched, at |-> now,
     library_scores |-> LibraryScores(Get(cfg, "third_party_libs", <<>>), nvd)]
    @@ assess_system(cfg, nvd, m.value)

\* assess_system(config), FRED answering as `provider` if it is asked.
Assess(provider) ==
    LET m == get_economic_stress_multiplier(cache, provider, now, now)
    IN  /\ fred' = (IF m.fetched THEN provider ELSE fred)
        /\ cache' = m.cache
        /\ result' = Returned(config, m)
        /\ UNCHANGED <<config, nvd, now, prior>>
        /\ UNCHANGED thrVars
        /\ UNCHANGED appVars

\* Time passes.
Tick ==
    /\ \E t \in Instants : t > now /\ now' = t
    /\ UNCHANGED <<config, nvd, fred, cache, result, prior>>
    /\ UNCHANGED thrVars
    /\ UNCHANGED appVars

\* Time passes while calls are in progress: up to the last second of an
\* entry stored at 0, and to the second it expires.
Expire ==
    /\ \E t \in {CacheTTL - 1, CacheTTL} : t > now /\ now' = t
    /\ UNCHANGED <<config, nvd, fred, cache, result, prior>>
    /\ UNCHANGED thrVars
    /\ UNCHANGED appVars

Secure(cfg, flag) == flag \in DOMAIN cfg /\ cfg[flag] = TRUE

\* The caller turns one flag of the description it had assessed from secure
\* to insecure.
FlipInsecure(flag) ==
    /\ result.called /\ result.config = config
    /\ Secure(config, flag)
    /\ config' = [config EXCEPT ![flag] = FALSE]
    /\ prior' = result
    /\ UNCHANGED <<nvd, fred, cache, now, result>>
    /\ UNCHANGED thrVars
    /\ UNCHANGED appVars

vars == <<config, nvd, fred, cache, now, result, prior, th, returned, produced, stored,
          request, response>>

Threads == {"t1", "t2"}

\* A thread's locals outside a call.
Idle ==
    [pc |-> "idle", caller |-> "none", i |-> 0, answers |-> <<>>, failed |-> 0,
     cached_time |-> 0, current_time |-> 0, vix |-> FredFailure("raises"),
     stress_level |-> 0, ret |-> 0, from_cache |-> FALSE, raised |-> FALSE]

NoReturn == [called |-> FALSE]

NoThreads ==
    /\ th = [t \in Threads |-> Idle]
    /\ returned = [t \in Threads |-> NoReturn]
    /\ produced = {}
    /\ stored = <<>>

\* Nothing has been asked of the mapper, the planner or the API.
NoRequest ==
    /\ request = [op |-> "none"]
    /\ response = [op |-> "none"]

\* The scorer over time: any provider answers, one description.
Init ==
    /\ config \in {HighRiskConfig, LowRiskConfig}
    /\ nvd = NvdDatabase
    /\ fred = NoKey
    /\ cache = EmptyCache
    /\ now = 0
    /\ result = NoResult
    /\ prior = NoResult
    /\ NoThreads
    /\ NoRequest

\* FRED is asked only by a call that finds no fresh cache entry.
Asked == IF CacheFresh(cache, now) THEN {fred} ELSE FredWorlds

AssessAny == \E w \in Asked : Assess(w)

Next == AssessAny \/ Tick

Spec == Init /\ [][Next]_vars

\* The scorer with providers whose answers do not change.
InitFixed ==
    /\ config \in {HighRiskConfig, LowRiskConfig}
    /\ nvd \in NvdWorlds
    /\ fred \in FredWorlds
    /\ cache = EmptyCache
    /\ now = 0
    /\ result = NoResult
    /\ prior = NoResult
    /\ NoThreads
    /\ NoRequest

NextFixed == Assess(fred) \/ Tick

SpecFixed == InitFixed /\ [][NextFixed]_vars

\* The score as a function of the description: every description, and the
\* caller's single-flag edits of it.
ScoreWorlds ==
    {NoKey}
    \cup {WithKey(FredValue(v), g) :
            v \in VixValues, g \in {FredFailure("raises"), FredValue(-21), FredValue(19)}}

InitScore ==
    /\ config \in Configs
    /\ nvd \in NvdWorlds
    /\ fred \in ScoreWorlds
    /\ cache = EmptyCache
    /\ now = 0
    /\ result = NoResult
    /\ prior = NoResult
    /\ NoThreads
    /\ NoRequest

NextScore == Assess(fred) \/ \E flag \in FlagKeys : FlipInsecure(flag)

SpecScore == InitScore /\ [][NextScore]_vars

-----------------------------------------------------------------------------
(* The score: claims C1, C2, C4, C8, checked under SpecScore *)

Libraries(cfg) == Get(cfg, "third_party_libs", <<>>)

\* C1: for every description, every library answer and every multiplier the
\* stress lookup yields, overall_risk_score is an integer from 0 to 100.
C1_ScoreInRange ==
    result.called => result.overall_risk_score \in 0..100

\* C1 witness: an assessment whose product of base score and multiplier is
\* above 100 and whose score is 100.
C1_Witness_Capped ==
    /\ result.called
    /\ result.base_score * result.economic_multiplier > 100 * Unit
    /\ result.overall_risk_score = 100

\* The integers nearest to n / d (two of them at a tie).
NearestIntegers(n, d) ==
    {q \in (n \div d)..(n \div d + 1) :
        \A r \in (n \div d)..(n \div d + 1) :
            (IF q * d >= n THEN q * d - n ELSE n - q * d)
                <= (IF r * d >= n THEN r * d - n ELSE n - r * d)}

\* C2 as claimed: the score is min(100, round(base * multiplier)), the product
\* rounded to a nearest integer.
C2_Claim_RoundedToNearest ==
    result.called =>
        \E r \in NearestIntegers(result.base_score * result.economic_multiplier, Unit) :
            result.overall_risk_score = Min(100, r)

\* The description `later` is `earlier` with one flag turned from secure to
\* insecure and nothing else changed.
OneFlagFlipped(earlier, later) ==
    \E flag \in FlagKeys :
        /\ Secure(earlier, flag)
        /\ later = [earlier EXCEPT ![flag] = FALSE]

\* C4: an assessment of a description with one flag turned from secure to
\* insecure, the model type, libraries, library scores and multiplier being
\* those of the assessment before the flip, scores no lower than that one.
C4_FlipNeverLowersScore ==
    ( /\ prior.called /\ result.called
      /\ OneFlagFlipped(prior.config, result.config)
      /\ result.library_scores = prior.library_scores
      /\ result.economic_multiplier = prior.economic_multiplier )
    => result.overall_risk_score >= prior.overall_risk_score

\* C4 witness: such a pair of assessments, the second scoring higher, and one
\* where the cap makes them equal.
C4_Witness_FlipRaises ==
    /\ prior.called /\ result.called
    /\ OneFlagFlipped(prior.config, result.config)
    /\ result.economic_multiplier = prior.economic_multiplier
    /\ result.overall_risk_score > prior.overall_risk_score
    /\ result.overall_risk_score < 100

\* The fallback the claim names, by the claim's own lists.
ThreeTier(name) ==
    LET lowered == Lower(name)
        heavy == {LibTensorFlow, LibPyTorch,
                  <<"s","c","i","k","i","t","-","l","e","a","r","n">>,
                  <<"n","u","m","p","y">>, <<"p","a","n","d","a","s">>}
        common == {<<"r","e","q","u","e","s","t","s">>, <<"f","l","a","s","k">>,
                   <<"d","j","a","n","g","o">>, <<"p","i","l","l","o","w">>,
                   <<"o","p","e","n","c","v">>}
    IN  IF \E pat \in heavy : Contains(pat, lowered) THEN 3
        ELSE IF \E pat \in common : Contains(pat, lowered) THEN 2
        ELSE 1

\* C8: when the lookup for a library raises, times out or answers with a
\* status other than 200, the library's score is 3, 2 or 1 by the three-tier
\* pattern match on its lower-cased name, and the assessment returns.
C8_UnavailableLookupFallsBack ==
    result.called =>
        \A i \in 1..Len(Libraries(result.config)) :
            NvdUnavailable(nvd[Libraries(result.config)[i]])
                => result.library_scores[i] = ThreeTier(Libraries(result.config)[i])

\* C8 witness: an assessment in which the lookup answered 503 for a library
\* of the middle tier whose name matches only once lower-cased.
C8_Witness_FallbackUsed ==
    /\ result.called
    /\ Libraries(result.config) = <<LibOpenCV>>
    /\ nvd[LibOpenCV] = NvdStatus(503)
    /\ result.library_scores = <<2>>

-----------------------------------------------------------------------------
(* The stress multiplier and its cache: claims C3, C6, C10 under Spec, C5
   under SpecFixed *)

\* The stress lookup failed: there is no API key, or one of the two series
\* was not obtained.
LookupFailed(provider) ==
    ~provider.key \/ provider.vix.kind # "value" \/ provider.gdp.kind # "value"

\* C3 as claimed: whenever the stress lookup fails in any way, the multiplier
\* assess_system uses is the default 1.2.
C3_Claim_FailureGivesDefault ==
    (result.called /\ result.fetched /\ LookupFailed(fred))
        => result.economic_multiplier = fallback_multiplier

InBounds(m) == Unit <= m /\ m <= 2 * Unit

\* C6: every multiplier returned and every stress level the cache holds lies
\* in [1.0, 2.0], whatever the two indicators are, absent ones included.
C6_MultiplierInBounds ==
    /\ result.called => InBounds(result.economic_multiplier)
    /\ "stress_level" \in DOMAIN cache => InBounds(cache["stress_level"])

\* C6 witness: a call whose indicators add up to more than 2.0 and which
\* returned and cached 2.0.
C6_Witness_Clamped ==
    /\ result.called /\ result.fetched /\ fred.key
    /\ calculate_stress_multiplier(fetch_fred_series(fred.vix),
                                   fetch_fred_series(fred.gdp)) > 2 * Unit
    /\ result.economic_multiplier = 2 * Unit
    /\ cache = CacheEntry(2 * Unit, result.at)

\* A step in which a call returned.
Called == result' # result \/ cache' # cache

\* C10: a call made less than 3600 seconds after a value was stored returns
\* that value and asks no provider, leaving the cache as it is; a call made
\* 3600 seconds after or later asks the provider and replaces the cached pair.
C10_CacheValidOneHour ==
    [][ (Called /\ "stress_level" \in DOMAIN cache) =>
          IF now - cache["timestamp"] < 3600
          THEN /\ ~result'.fetched
               /\ result'.economic_multiplier = cache["stress_level"]
               /\ cache' = cache
          ELSE /\ result'.fetched
               /\ cache' = CacheEntry(result'.economic_multiplier, now)
      ]_vars

\* C10 witness: a call answered from a pair stored 3599 seconds before it.
C10_Witness_HitBeforeExpiry ==
    /\ result.called /\ ~result.fetched
    /\ result.at - cache["timestamp"] = CacheTTL - 1
    /\ result.economic_multiplier = cache["stress_level"]

\* C5: with providers whose answers do not change, two calls with the same
\* description return the same score, risk factors and multiplier, whether
\* the second finds the cache empty, fresh or expired.
C5_SameInputsSameResult ==
    [][ (result.called /\ result'.called /\ result'.config = result.config) =>
          /\ result'.overall_risk_score = result.overall_risk_score
          /\ result'.risk_factors = result.risk_factors
          /\ result'.economic_multiplier = result.economic_multiplier
      ]_vars

\* C5 witness: a call answered from the cache, after a call that asked the
\* provider, with a multiplier other than the defaults.
C5_Witness_SecondCall ==
    /\ result.called /\ ~result.fetched
    /\ result.at > cache["timestamp"]
    /\ result.economic_multiplier = 1700

-----------------------------------------------------------------------------
(* Calls step by step: threads that share one RiskScorer.                  *)
(* A step is one read or one replacement of self.economic_stress_cache,    *)
(* one read of the clock, or one request to a provider; the interpreter    *)
(* runs each of these without another thread in between.                   *)

Set(t, locals) == th' = [th EXCEPT ![t] = locals]

\* Mutant: get_library_vulnerability_score without its try/except.
LookupRaisesUncaught(resp) == resp.kind = "raises"

\* Whether an exception leaves get_library_vulnerability_score: the
\* try/except Exception of lines 161 and 230 lets none out.
LookupRaises(resp) == FALSE

\* What the provider may answer a lookup of one library.
LookupAnswers(library_name) == {NvdRaises, NvdStatus(503), NvdDatabase[library_name]}

\* What FRED may answer for the volatility index and for GDP growth.
VixAnswers == {FredFailure("raises"), FredValue(401)}

GdpAnswers == {FredFailure("raises"), FredValue(-21)}

\* A direct call of _get_economic_stress_multiplier begins.
CallMultiplier(t) ==
    /\ th[t].pc = "idle"
    /\ Set(t, [Idle EXCEPT !.pc = "check", !.caller = "direct"])
    /\ returned' = [returned EXCEPT ![t] = NoReturn]
    /\ UNCHANGED <<produced, stored>>
    /\ UNCHANGED seqVars
    /\ UNCHANGED appVars

\* assess_system begins (lines 55-73).
StartAssess(t) ==
    /\ th[t].pc = "idle"
    /\ Set(t, [Idle EXCEPT !.pc = "libs", !.caller = "assess", !.i = 1])
    /\ returned' = [returned EXCEPT ![t] = NoReturn]
    /\ UNCHANGED <<produced, stored>>
    /\ UNCHANGED seqVars
    /\ UNCHANGED appVars

\* One turn of the loop of line 127: the lookup of library i ends, with an
\* answer or with its timeout.
LibLookup(t) ==
    LET libs == Libraries(config)
        L == th[t]
    IN  /\ L.pc = "libs" /\ L.i <= Len(libs)
        /\ \E resp \in LookupAnswers(libs[L.i]) :
             IF LookupRaises(resp)
             THEN Set(t, [L EXCEPT !.pc = "error"])
             ELSE Set(t, [L EXCEPT !.i = L.i + 1,
                                   !.answers = (libs[L.i] :> resp) @@ L.answers,
                                   !.failed = L.failed + (IF NvdUnavailable(resp) THEN 1 ELSE 0)])
        /\ UNCHANGED <<returned, produced, stored>>
        /\ UNCHANGED seqVars
    /\ UNCHANGED appVars
        /\ UNCHANGED appVars

\* The loop is over; line 90 calls _get_economic_stress_multiplier.
LibsDone(t) ==
    /\ th[t].pc = "libs" /\ th[t].i > Len(Libraries(config))
    /\ Set(t, [th[t] EXCEPT !.pc = "check"])
    /\ UNCHANGED <<returned, produced, stored>>
    /\ UNCHANGED seqVars
    /\ UNCHANGED appVars

\* Line 267: "stress_level" in self.economic_stress_cache.
CheckCache(t) ==
    /\ th[t].pc = "check"
    /\ Set(t, [th[t] EXCEPT !.pc = IF "stress_level" \in DOMAIN cache
                                   THEN "read_timestamp" ELSE "fetch"])
    /\ UNCHANGED <<returned, produced, stored>>
    /\ UNCHANGED seqVars
    /\ UNCHANGED appVars

\* Line 268: self.economic_stress_cache.get("timestamp", 0).
ReadTimestamp(t) ==
    /\ th[t].pc = "read_timestamp"
    /\ Set(t, [th[t] EXCEPT !.pc = "read_clock", !.cached_time = Get(cache, "timestamp", 0)])
    /\ UNCHANGED <<returned, produced, stored>>
    /\ UNCHANGED seqVars
    /\ UNCHANGED appVars

\* Lines 269-272: the clock is read and compared.
ReadClock(t) ==
    /\ th[t].pc = "read_clock"
    /\ Set(t, [th[t] EXCEPT !.current_time = now,
                            !.pc = IF now - th[t].cached_time < CacheTTL
                                   THEN "read_level" ELSE "fetch"])
    /\ UNCHANGED <<returned, produced, stored>>
    /\ UNCHANGED seqVars
    /\ UNCHANGED appVars

\* Line 273: return self.economic_stress_cache["stress_level"]; a KeyError
\* would be caught at line 286 and 1.0 returned.
ReadLevel(t) ==
    /\ th[t].pc = "read_level"
    /\ Set(t, [th[t] EXCEPT !.pc = "return", !.from_cache = TRUE,
                            !.raised = "stress_level" \notin DOMAIN cache,
                            !.ret = IF "stress_level" \in DOMAIN cache
                                    THEN CachedStress(cache) ELSE Unit])
    /\ UNCHANGED <<returned, produced, stored>>
    /\ UNCHANGED seqVars
    /\ UNCHANGED appVars

\* Lines 298-300: without an API key the fallback is the stress level.
FetchKey(t) ==
    /\ th[t].pc = "fetch"
    /\ \E key \in BOOLEAN :
         IF key
         THEN /\ Set(t, [th[t] EXCEPT !.pc = "fetch_vix"])
              /\ UNCHANGED produced
         ELSE /\ Set(t, [th[t] EXCEPT !.pc = "store", !.failed = th[t].failed + 1,
                                      !.stress_level = fetch_economic_stress_indicator(NoKey)])
              /\ produced' = produced \cup {fetch_economic_stress_indicator(NoKey)}
    /\ UNCHANGED <<returned, stored>>
    /\ UNCHANGED seqVars
    /\ UNCHANGED appVars

\* Line 303: the request for the volatility index ends.
FetchVix(t) ==
    /\ th[t].pc = "fetch_vix"
    /\ \E resp \in VixAnswers :
         Set(t, [th[t] EXCEPT !.pc = "fetch_gdp", !.vix = resp,
                              !.failed = th[t].failed + (IF resp.kind = "value" THEN 0 ELSE 1)])
    /\ UNCHANGED <<returned, produced, stored>>
    /\ UNCHANGED seqVars
    /\ UNCHANGED appVars

\* Lines 306-312: the request for GDP growth ends; the stress level.
FetchGdp(t) ==
    /\ th[t].pc = "fetch_gdp"
    /\ \E resp \in GdpAnswers :
         LET level == fetch_economic_stress_indicator(WithKey(th[t].vix, resp))
         IN  /\ Set(t, [th[t] EXCEPT !.pc = "store", !.stress_level = level,
                                     !.failed = th[t].failed + (IF resp.kind = "value" THEN 0 ELSE 1)])
             /\ produced' = produced \cup {level}
    /\ UNCHANGED <<returned, stored>>
    /\ UNCHANGED seqVars
    /\ UNCHANGED appVars

\* Lines 279-284: the cache is replaced by a new dict.
Store(t) ==
    /\ th[t].pc = "store"
    /\ cache' = CacheEntry(th[t].stress_level, now)
    /\ stored' = <<th[t].stress_level, now>>
    /\ Set(t, [th[t] EXCEPT !.pc = "return", !.ret = th[t].stress_level])
    /\ UNCHANGED <<returned, produced>>
    /\ UNCHANGED <<config, nvd, fred, now, result, prior>>
    /\ UNCHANGED appVars

\* The direct call returns.
ReturnMultiplier(t) ==
    /\ th[t].pc = "return" /\ th[t].caller = "direct"
    /\ returned' = [returned EXCEPT ![t] =
                      [called |-> TRUE, value |-> th[t].ret,
                       from_cache |-> th[t].from_cache, raised |-> th[t].raised]]
    /\ Set(t, Idle)
    /\ UNCHANGED <<produced, stored>>
    /\ UNCHANGED seqVars
    /\ UNCHANGED appVars

\* Lines 91-109: assess_system returns; what it returns is computed from
\* the answers it got and the multiplier (AssessmentOf below).
FinishAssess(t) ==
    /\ th[t].pc = "return" /\ th[t].caller = "assess"
    /\ returned' = [returned EXCEPT ![t] =
                      [called |-> TRUE, failed |-> th[t].failed,
                       answers |-> th[t].answers, multiplier |-> th[t].ret]]
    /\ Set(t, Idle)
    /\ UNCHANGED <<produced, stored>>
    /\ UNCHANGED seqVars
    /\ UNCHANGED appVars

\* The result of the assessment thread t returned last.
AssessmentOf(t) == assess_system(config, returned[t].answers, returned[t].multiplier)

\* A step of _get_economic_stress_multiplier.
MultiplierStep(t) ==
    \/ CheckCache(t) \/ ReadTimestamp(t) \/ ReadClock(t) \/ ReadLevel(t)
    \/ FetchKey(t) \/ FetchVix(t) \/ FetchGdp(t) \/ Store(t)

\* Concurrent calls of _get_economic_stress_multiplier.
InitThreads ==
    /\ config = LowRiskConfig
    /\ nvd = NvdDatabase
    /\ fred = NoKey
    /\ cache = EmptyCache
    /\ now = 0
    /\ result = NoResult
    /\ prior = NoResult
    /\ NoThreads
    /\ NoRequest

NextThreads ==
    \/ \E t \in Threads : CallMultiplier(t) \/ MultiplierStep(t) \/ ReturnMultiplier(t)
    \/ Expire

SpecThreads == InitThreads /\ [][NextThreads]_vars

\* One caller's assessments step by step.  A call once begun keeps being
\* scheduled, and every request to a provider ends, with an answer or with
\* its timeout: each step of a call in progress is weakly fair.
Caller == "t1"

InCallStep(t) == LibLookup(t) \/ LibsDone(t) \/ MultiplierStep(t) \/ FinishAssess(t)

InitLive ==
    /\ config \in {HighRiskConfig, LowRiskConfig}
    /\ nvd = NvdDatabase
    /\ fred = NoKey
    /\ cache = EmptyCache
    /\ now = 0
    /\ result = NoResult
    /\ prior = NoResult
    /\ NoThreads
    /\ NoRequest

NextLive == StartAssess(Caller) \/ InCallStep(Caller) \/ Expire

SpecLive == InitLive /\ [][NextLive]_vars /\ WF_vars(InCallStep(Caller))

\* C9: under every interleaving of concurrent calls of
\* _get_economic_stress_multiplier the cache is empty or a complete
\* (stress_level, timestamp) pair, and it is the entry of the last writer;
\* every call returns a multiplier between 1.0 and 2.0 that some fetch or
\* fallback produced, and no call takes the way of an exception.
C9_CacheSafeUnderConcurrency ==
    /\ \/ cache = EmptyCache /\ stored = <<>>
       \/ /\ DOMAIN cache = {"stress_level", "timestamp"}
          /\ stored = <<cache["stress_level"], cache["timestamp"]>>
    /\ \A t \in Threads :
         /\ ~th[t].raised
         /\ returned[t].called =>
              /\ InBounds(returned[t].value)
              /\ returned[t].value \in produced
              /\ ~returned[t].raised

\* Two calls fetched at the same time and got different stress levels: both
\* returned their own, and the cache holds that of the later writer.
C9_Witness_LastWriterRemains ==
    /\ returned["t1"].called /\ returned["t2"].called
    /\ ~returned["t1"].from_cache /\ ~returned["t2"].from_cache
    /\ returned["t1"].value # returned["t2"].value
    /\ stored # <<>> /\ stored[1] = returned["t2"].value
    /\ cache = CacheEntry(returned["t2"].value, stored[2])

\* C7: every call of assess_system that has begun returns a result, whatever
\* the providers answer and however many of their requests fail, given that
\* each request ends; no call stays waiting or ends in an error.
C7_AssessmentReturns ==
    (th[Caller].pc # "idle") ~> (th[Caller].pc = "idle" /\ returned[Caller].called)

\* An assessment returned although every library lookup and the stress
\* lookup failed.
C7_Witness_ReturnedDespiteFailures ==
    /\ th[Caller].pc = "idle"
    /\ returned[Caller].called
    /\ Len(Libraries(config)) = 4
    /\ returned[Caller].failed = 5
    /\ AssessmentOf(Caller).overall_risk_score \in 0..100

-----------------------------------------------------------------------------
(* The gap mapper (csf_mapper.py).                                         *)
(* Category codes are Python strs as above; risk-type keys, descriptions   *)
(* and severities are only compared for equality or used as dict keys, and *)
(* are TLA+ strings.  RiskLevel is a str enum: its members are its values. *)

GV_SC_01 == <<"G", "V", ".", "S", "C", "-", "0", "1">>

GV_SC_04 == <<"G", "V", ".", "S", "C", "-", "0", "4">>

GV_OC_02 == <<"G", "V", ".", "O", "C", "-", "0", "2">>

ID_RA_01 == <<"I", "D", ".", "R", "A", "-", "0", "1">>

ID_AM_03 == <<"I", "D", ".", "A", "M", "-", "0", "3">>

ID_SC_04 == <<"I", "D", ".", "S", "C", "-", "0", "4">>

PR_DS_06 == <<"P", "R", ".", "D", "S", "-", "0", "6">>

PR_DS_08 == <<"P", "R", ".", "D", "S", "-", "0", "8">>

PR_DS_11 == <<"P", "R", ".", "D", "S", "-", "1", "1">>

PR_AC_07 == <<"P", "R", ".", "A", "C", "-", "0", "7">>

DE_CM_07 == <<"D", "E", ".", "C", "M", "-", "0", "7">>

DE_AE_02 == <<"D", "E", ".", "A", "E", "-", "0", "2">>

RS_AN_01 == <<"R", "S", ".", "A", "N", "-", "0", "1">>

RC_RP_04 == <<"R", "C", ".", "R", "P", "-", "0", "4">>

RiskLevels == {"Critical", "High", "Medium", "Low"}

\* The elements of a list.
Range(seq) == {seq[i] : i \in 1..Len(seq)}

\* The None of an Optional, and a value of it.
None == <<>>

Some(v) == <<v>>

\* get_csf_category_description: the name of the category with this code,
\* or the text of the subcategory with this code, or None.  A code is the
\* key of one category or subcategory at most, so the order in which the
\* dicts are walked does not matter.
get_csf_category_description(csf_data, category_code) ==
    LET functions == csf_data["functions"]
        found == {f \in DOMAIN functions :
                    \/ category_code \in DOMAIN functions[f]["categories"]
                    \/ \E c \in DOMAIN functions[f]["categories"] :
                         LET cat_data == functions[f]["categories"][c]
                         IN  /\ "subcategories" \in DOMAIN cat_data
                             /\ category_code \in DOMAIN cat_data["subcategories"]}
    IN  IF found = {} THEN None
        ELSE LET f == CHOOSE f \in found : TRUE
                 cats == functions[f]["categories"]
             IN  IF category_code \in DOMAIN cats THEN Some(cats[category_code]["name"])
                 ELSE LET c == CHOOSE c \in DOMAIN cats :
                                 /\ "subcategories" \in DOMAIN cats[c]
                                 /\ category_code \in DOMAIN cats[c]["subcategories"]
                      IN  Some(cats[c]["subcategories"][category_code])

critical_categories == {GV_SC_01, PR_DS_06, ID_RA_01}

high_categories == {DE_CM_07, GV_SC_04, PR_DS_08}

\* Mutant: a critical category is Critical from base score 30 on.
assess_category_severity_from_thirty(ai_risks, risk_type, csf_category) ==
    LET base_score == ai_risks["ai_risk_categories"][risk_type]["base_risk_score"]
    IN  IF csf_category \in critical_categories /\ base_score >= 30 THEN "Critical"
        ELSE IF csf_category \in high_categories \/ base_score > 25 THEN "High"
        ELSE IF base_score > 15 THEN "Medium"
        ELSE "Low"

assess_category_severity(ai_risks, risk_type, csf_category) ==
    LET base_score == ai_risks["ai_risk_categories"][risk_type]["base_risk_score"]
    IN  IF csf_category \in critical_categories /\ base_score > 30 THEN "Critical"
        ELSE IF csf_category \in high_categories \/ base_score > 25 THEN "High"
        ELSE IF base_score > 15 THEN "Medium"
        ELSE "Low"

\* The entry map_risk_to_csf appends for one mapped category code.
MappedCategory(ai_risks, csf_data, risk_type, csf_category) ==
    LET description == get_csf_category_description(csf_data, csf_category)
    IN  [code |-> csf_category,
         severity |-> assess_category_severity(ai_risks, risk_type, csf_category),
         description |-> IF description = None \/ description = Some("")
                         THEN "NIST CSF category <code>"
                         ELSE description[1]]

\* Mutant: a mapped code the taxonomy does not know is left out.
map_risk_to_csf_known_only(ai_risks, csf_data, risk_type) ==
    IF risk_type \notin DOMAIN ai_risks["ai_risk_categories"] THEN None
    ELSE LET risk_data == ai_risks["ai_risk_categories"][risk_type]
             known == SelectSeq(risk_data["csf_mappings"],
                                LAMBDA c : get_csf_category_description(csf_data, c) # None)
         IN  Some([categories |-> [i \in 1..Len(known) |->
                                     MappedCategory(ai_risks, csf_data, risk_type, known[i])],
                   description |-> risk_data["description"],
                   supply_chain_impact |-> risk_data["supply_chain_impact"]])

map_risk_to_csf(ai_risks, csf_data, risk_type) ==
    IF risk_type \notin DOMAIN ai_risks["ai_risk_categories"] THEN None
    ELSE LET risk_data == ai_risks["ai_risk_categories"][risk_type]
             mappings == risk_data["csf_mappings"]
         IN  Some([categories |-> [i \in 1..Len(mappings) |->
                                     MappedCategory(ai_risks, csf_data, risk_type, mappings[i])],
                   description |-> risk_data["description"],
                   supply_chain_impact |-> risk_data["supply_chain_impact"]])

CSFGap(category, description, severity) ==
    [category |-> category, description |-> description, severity |-> severity]

\* Mutant: the data-integrity gap is Critical from score 70 on.
DataIntegritySeverityInclusive(risk_assessment) ==
    IF Get(risk_assessment, "overall_risk_score", 0) >= 70 THEN "Critical" ELSE "High"

\* Line 121: the severity of the data-integrity gap.
DataIntegritySeverity(risk_assessment) ==
    IF Get(risk_assessment, "overall_risk_score", 0) > 70 THEN "Critical" ELSE "High"

\* Mutant: the third-party rule fires also for an empty library list.
LibrariesUnassessedAlways(system_config) ==
    ~Get(system_config, "vendor_assessment", FALSE)

\* Line 109: there are libraries and no vendor assessment.
LibrariesUnassessed(system_config) ==
    /\ Get(system_config, "third_party_libs", <<>>) # <<>>
    /\ ~Get(system_config, "vendor_assessment", FALSE)

\* Mutant: the drift-monitoring rule is an elif of the data-lineage rule,
\* so a lineage gap suppresses the drift-monitoring gap.
identify_gaps_elif(system_config, risk_assessment) ==
    LET lineage == ~Get(system_config, "data_lineage_documented", FALSE)
        g1 == Append1(~Get(system_config, "supply_chain_policy", FALSE), <<>>,
                      CSFGap(GV_SC_01,
                             "Missing cybersecurity supply chain risk management strategy",
                             "High"))
        g2 == Append1(lineage, g1,
                      CSFGap(ID_AM_03, "Data flow and lineage not documented", "Medium"))
        g3 == Append1(~lineage /\ ~Get(system_config, "drift_monitoring_enabled", FALSE), g2,
                      CSFGap(DE_CM_07, "ML model drift monitoring not implemented", "High"))
        g4 == Append1(LibrariesUnassessed(system_config), g3,
                      CSFGap(ID_SC_04, "Third-party ML libraries not assessed for security",
                             "Medium"))
    IN  Append1(~Get(system_config, "data_integrity_checks", FALSE), g4,
                CSFGap(PR_DS_06, "Training data integrity verification not implemented",
                       DataIntegritySeverity(risk_assessment)))

identify_gaps(system_config, risk_assessment) ==
    LET g1 == Append1(~Get(system_config, "supply_chain_policy", FALSE), <<>>,
                      CSFGap(GV_SC_01,
                             "Missing cybersecurity supply chain risk management strategy",
                             "High"))
        g2 == Append1(~Get(system_config, "data_lineage_documented", FALSE), g1,
                      CSFGap(ID_AM_03, "Data flow and lineage not documented", "Medium"))
        g3 == Append1(~Get(system_config, "drift_monitoring_enabled", FALSE), g2,
                      CSFGap(DE_CM_07, "ML model drift monitoring not implemented", "High"))
        g4 == Append1(LibrariesUnassessed(system_config), g3,
                      CSFGap(ID_SC_04, "Third-party ML libraries not assessed for security",
                             "Medium"))
    IN  Append1(~Get(system_config, "data_integrity_checks", FALSE), g4,
                CSFGap(PR_DS_06, "Training data integrity verification not implemented",
                       DataIntegritySeverity(risk_assessment)))

\* The knowledge base.  data/ai_risks.json and data/csf_categories.json are
\* not among the sources: the catalogs below are any of those the
\* specification and the tests allow.  Every risk-type entry has a
\* description, a supply-chain impact, a base score and a non-empty list of
\* mapped category codes (test_all_ai_risks_have_csf_mappings); a mapped
\* code need not exist in the taxonomy.
RiskTypeKeys == {"training_data_poisoning", "model_drift"}

AskedRiskTypes == RiskTypeKeys \cup {"invalid_risk_type"}

MappingLists == { <<GV_SC_01>>, <<PR_DS_06, DE_CM_07, PR_DS_11>>, <<ID_RA_01, GV_SC_04>> }

BaseRiskScores == {15, 16, 25, 26, 30, 31}

RiskTypeEntry(mappings, base_score) ==
    [csf_mappings |-> mappings,
     description |-> "risk description",
     supply_chain_impact |-> "supply chain impact",
     base_risk_score |-> base_score]

RiskTypeEntries == {RiskTypeEntry(m, b) : m \in MappingLists, b \in BaseRiskScores}

Catalogs ==
    {[ai_risk_categories |-> c] :
        c \in UNION {[K -> RiskTypeEntries] : K \in SUBSET RiskTypeKeys}}

GV_SC == <<"G", "V", ".", "S", "C">>

PR_DS == <<"P", "R", ".", "D", "S">>

\* A taxonomy with categories, one of them with subcategories.
Taxonomy ==
    [functions |->
        ("GOVERN" :> [categories |->
            (GV_SC :> [name |-> "Cybersecurity Supply Chain Risk Management",
                       subcategories |-> (GV_SC_01 :> "A supply chain program is established"
                                          @@ GV_SC_04 :> "")])])
        @@ ("PROTECT" :> [categories |-> (PR_DS :> [name |-> "Data Security"])])]

\* A taxonomy that knows none of the mapped codes.
BareTaxonomy == [functions |-> ("DETECT" :> [categories |-> (PR_DS_11 :> [name |-> ""])])]

Taxonomies == {Taxonomy, BareTaxonomy}

\* The descriptions and assessments handed to identify_gaps.
PostureKeys == {"supply_chain_policy", "vendor_assessment", "data_integrity_checks"}

GapConfigs ==
    {posture @@ base :
        posture \in UNION {[D -> BOOLEAN] : D \in SUBSET PostureKeys},
        base \in {c \in Configs : c["model_type"] = ModelLinear}}

GapScores == {0, 50, 69, 70, 71, 85, 100}

Assessments == {[overall_risk_score |-> n] : n \in GapScores} \cup {EmptyCache}

\* The calls of the mapper.
MapRiskRequest(ai_risks, csf_data, risk_type) ==
    [op |-> "map_risk_to_csf", ai_risks |-> ai_risks, csf_data |-> csf_data,
     risk_type |-> risk_type]

IdentifyGapsRequest(system_config, risk_assessment) ==
    [op |-> "identify_gaps", system_config |-> system_config,
     risk_assessment |-> risk_assessment]

MapperRequests ==
    {MapRiskRequest(a, d, k) : a \in Catalogs, d \in Taxonomies, k \in AskedRiskTypes}
    \cup {IdentifyGapsRequest(c, r) : c \in GapConfigs, r \in Assessments}

\* The call has been made and has not returned.
Pending(op) == request.op = op /\ response.op = "none"

\* CSFMapper.map_risk_to_csf returns.
MapRisk ==
    /\ Pending("map_risk_to_csf")
    /\ response' = [op |-> "map_risk_to_csf", raised |-> FALSE,
                    value |-> map_risk_to_csf(request.ai_risks, request.csf_data,
                                              request.risk_type)]
    /\ UNCHANGED request
    /\ UNCHANGED seqVars
    /\ UNCHANGED thrVars

\* CSFMapper.identify_gaps returns.
IdentifyGaps ==
    /\ Pending("identify_gaps")
    /\ response' = [op |-> "identify_gaps", raised |-> FALSE,
                    value |-> identify_gaps(request.system_config, request.risk_assessment)]
    /\ UNCHANGED request
    /\ UNCHANGED seqVars
    /\ UNCHANGED thrVars

\* The scorer's state when only the mapper, the planner or the API is used.
ScorerUnused ==
    /\ config = LowRiskConfig
    /\ nvd = NvdDatabase
    /\ fred = NoKey
    /\ cache = EmptyCache
    /\ now = 0
    /\ result = NoResult
    /\ prior = NoResult
    /\ NoThreads

InitMapper ==
    /\ ScorerUnused
    /\ request \in MapperRequests
    /\ response = [op |-> "none"]

NextMapper == MapRisk \/ IdentifyGaps

SpecMapper == InitMapper /\ [][NextMapper]_vars

-----------------------------------------------------------------------------
(* The gap mapper: claims C11, C12, C13 under SpecMapper *)

Answered(op) == request.op = op /\ response.op = op

\* C11: map_risk_to_csf returns None, and raises nothing, for a key that is
\* not in the risk-type catalog; for a key of the catalog it returns a
\* mapping whose categories list is not empty and has one entry per mapped
\* category code of the risk type, in the order of the catalog.
C11_MapRiskNoneOrEveryCode ==
    Answered("map_risk_to_csf") =>
        LET catalog == request.ai_risks["ai_risk_categories"]
            key == request.risk_type
        IN  /\ ~response.raised
            /\ key \notin DOMAIN catalog => response.value = None
            /\ key \in DOMAIN catalog =>
                 /\ response.value # None
                 /\ LET categories == response.value[1].categories
                        codes == catalog[key].csf_mappings
                    IN  /\ Len(categories) > 0
                        /\ Len(categories) = Len(codes)
                        /\ \A i \in 1..Len(codes) : categories[i].code = codes[i]

\* A risk type of three mapped codes, the last unknown to the taxonomy, was
\* mapped to three categories.
C11_Witness_OrphanCodeKept ==
    /\ Answered("map_risk_to_csf")
    /\ response.value # None
    /\ Len(response.value[1].categories) = 3
    /\ response.value[1].categories[3].code = PR_DS_11
    /\ get_csf_category_description(request.csf_data, PR_DS_11) = None

\* The data-integrity gaps of a gap list.
DataIntegrityGaps(gaps) == {i \in 1..Len(gaps) : gaps[i].category = PR_DS_06}

\* C12: with data_integrity_checks false or absent identify_gaps emits
\* exactly one PR.DS-06 gap, Critical if and only if the overall score is
\* above 70 and High otherwise; with data_integrity_checks true it emits
\* none.
C12_DataIntegrityGapSeverity ==
    Answered("identify_gaps") =>
        LET gaps == response.value
            score == Get(request.risk_assessment, "overall_risk_score", 0)
        IN  IF Get(request.system_config, "data_integrity_checks", FALSE)
            THEN DataIntegrityGaps(gaps) = {}
            ELSE /\ Cardinality(DataIntegrityGaps(gaps)) = 1
                 /\ \A i \in DataIntegrityGaps(gaps) :
                      gaps[i].severity = IF score > 70 THEN "Critical" ELSE "High"

\* At score 70 the data-integrity gap is High.
C12_Witness_HighAtSeventy ==
    /\ Answered("identify_gaps")
    /\ request.risk_assessment = [overall_risk_score |-> 70]
    /\ \E i \in DataIntegrityGaps(response.value) : response.value[i].severity = "High"

\* The categories of a gap list.
GapCategories(gaps) == {gaps[i].category : i \in 1..Len(gaps)}

\* C13 as claimed: for the fully secure description with no other flags
\* given, the only gap identify_gaps may return is the data-integrity gap.
C13_Claim_OnlyDataIntegrityGap ==
    (Answered("identify_gaps") /\ request.system_config = LowRiskConfig)
        => GapCategories(response.value) \subseteq {PR_DS_06}

\* The fully secure description, with or without the posture flags it does
\* not name.
ExtendsLowRisk(system_config) ==
    /\ DOMAIN LowRiskConfig \subseteq DOMAIN system_config
    /\ \A k \in DOMAIN LowRiskConfig : system_config[k] = LowRiskConfig[k]

\* C13 amended: for the fully secure description identify_gaps returns no
\* gap for lineage, drift monitoring or third-party libraries; the
\* supply-chain gap (GV.SC-01) and the data-integrity gap (PR.DS-06) appear,
\* each unless its own flag is true, and with no other flags given both do.
C13_OnlyUnnamedFlagGaps ==
    (Answered("identify_gaps") /\ ExtendsLowRisk(request.system_config)) =>
        /\ GapCategories(response.value) =
             {c \in {GV_SC_01, PR_DS_06} :
                ~Get(request.system_config,
                     IF c = GV_SC_01 THEN "supply_chain_policy" ELSE "data_integrity_checks",
                     FALSE)}
        /\ Len(response.value) = Cardinality(GapCategories(response.value))
        /\ request.system_config = LowRiskConfig =>
             GapCategories(response.value) = {GV_SC_01, PR_DS_06}

\* The fully secure description with no other flags got two gaps.
C13_Witness_SupplyChainGap ==
    /\ Answered("identify_gaps")
    /\ request.system_config = LowRiskConfig
    /\ Len(response.value) = 2
    /\ response.value[1].category = GV_SC_01

-----------------------------------------------------------------------------
(* The scorer again: claim C14 under SpecScore *)

\* Lineage documented, drift monitoring on, encryption on, access controls
\* on, no black-box term in the model type, no libraries.
FullySecure(system_config) ==
    /\ \A k \in FlagKeys : Secure(system_config, k)
    /\ ~AnyIn(<< <<"n","e","u","r","a","l">>, <<"d","e","e","p">>, <<"b","l","a","c","k">> >>,
              Lower(system_config["model_type"]))
    /\ system_config["third_party_libs"] = <<>>

\* C14: a fully secure description gets a score below 40 under any
\* multiplier, and under multiplier 1.0 the score 0 and no risk factors.
C14_FullySecureScoresZero ==
    (result.called /\ FullySecure(result.config)) =>
        /\ result.overall_risk_score < 40
        /\ result.economic_multiplier = Unit =>
             /\ result.overall_risk_score = 0
             /\ result.risk_factors = <<>>

\* A fully secure description was assessed under multiplier 1.0.
C14_Witness_SecureAtOne ==
    /\ result.called
    /\ FullySecure(result.config)
    /\ result.economic_multiplier = Unit
    /\ result.overall_risk_score = 0
    /\ result.risk_factors = <<>>

-----------------------------------------------------------------------------
(* The action planner (action_planner.py).                                 *)
(* Of a template the title, the effort and the timeline are kept; its      *)
(* description and its list of steps are copied into an item unread and    *)
(* are left out, as are the texts of the success criteria.                 *)

Template(title, effort, timeline) ==
    [title |-> title, effort |-> effort, timeline |-> timeline]

remediation_templates ==
    (GV_SC_01 :> Template("Establish Supply Chain Risk Management Strategy", "High", "60-90 days"))
    @@ (GV_OC_02 :> Template("Implement AI Governance and Transparency", "Medium", "30-60 days"))
    @@ (ID_RA_01 :> Template("Comprehensive AI Asset Vulnerability Assessment", "Medium", "14-30 days"))
    @@ (ID_AM_03 :> Template("Implement Data Lineage Documentation", "Medium", "30-45 days"))
    @@ (ID_SC_04 :> Template("Third-Party Component Security Assessment", "Medium", "21-45 days"))
    @@ (PR_DS_06 :> Template("Implement Training Data Integrity Verification", "High", "45-90 days"))
    @@ (PR_AC_07 :> Template("Implement Access Controls for AI Systems", "Medium", "30-60 days"))
    @@ (DE_CM_07 :> Template("Deploy Continuous ML Model Monitoring", "High", "30-60 days"))
    @@ (DE_AE_02 :> Template("Implement Adversarial Attack Detection", "High", "60-90 days"))
    @@ (RS_AN_01 :> Template("Establish AI Incident Analysis Procedures", "Medium", "21-45 days"))
    @@ (RC_RP_04 :> Template("Develop AI System Recovery Planning", "Medium", "30-60 days"))

cost_estimates ==
    [effort \in {"Low", "Medium", "High"} |->
        IF effort = "Low" THEN [min |-> 5000, max |-> 15000]
        ELSE IF effort = "Medium" THEN [min |-> 15000, max |-> 50000]
        ELSE [min |-> 50000, max |-> 150000]]

\* The codes _load_nist_references has a link for.
nist_referenced ==
    {GV_SC_01, GV_SC_04, GV_OC_02, ID_RA_01, ID_AM_03, ID_SC_04, PR_DS_06, PR_DS_08,
     DE_CM_07, DE_AE_02, RS_AN_01, RC_RP_04}

\* Mutant: a score of exactly 60 does not yet make the urgency High.
calculate_urgency_above(severity, overall_risk_score) ==
    IF severity = "Critical" \/ overall_risk_score >= 80 THEN "Immediate"
    ELSE IF severity = "High" \/ overall_risk_score > 60 THEN "High"
    ELSE IF severity = "Medium" \/ overall_risk_score >= 40 THEN "Medium"
    ELSE "Low"

calculate_urgency(severity, overall_risk_score) ==
    IF severity = "Critical" \/ overall_risk_score >= 80 THEN "Immediate"
    ELSE IF severity = "High" \/ overall_risk_score >= 60 THEN "High"
    ELSE IF severity = "Medium" \/ overall_risk_score >= 40 THEN "Medium"
    ELSE "Low"

estimate_cost(effort_level) == Get(cost_estimates, effort_level, cost_estimates["Medium"])

\* The codes _generate_success_criteria has criteria of their own for.
criteria_map == {GV_SC_01, PR_DS_06, DE_CM_07}

generate_success_criteria(category) ==
    IF category \in criteria_map THEN "own" ELSE "general"

\* The code points of the characters of category codes, in their order.
CodeChars ==
    <<"-", ".", "0","1","2","3","4","5","6","7","8","9",
      "A","B","C","D","E","F","G","H","I","J","K","L","M",
      "N","O","P","Q","R","S","T","U","V","W","X","Y","Z">>

Ord(c) == CHOOSE i \in 1..Len(CodeChars) : CodeChars[i] = c

\* a < b for two strs.
RECURSIVE StrLess(_, _)
StrLess(a, b) ==
    IF b = <<>> THEN FALSE
    ELSE IF a = <<>> THEN TRUE
    ELSE IF Head(a) = Head(b) THEN StrLess(Tail(a), Tail(b))
    ELSE Ord(Head(a)) < Ord(Head(b))

\* str.startswith
StartsWith(s, prefix) == Len(s) >= Len(prefix) /\ SubSeq(s, 1, Len(prefix)) = prefix

\* The sort key of line 314: (0 if priority is High else 1, category).
PriorityRank(x) == IF x.priority = "High" THEN 0 ELSE 1

\* Mutant: the list is sorted by category code alone.
SimpleKeyLessByCategory(x, y) == StrLess(x.category, y.category)

SimpleKeyLess(x, y) ==
    \/ PriorityRank(x) < PriorityRank(y)
    \/ PriorityRank(x) = PriorityRank(y) /\ StrLess(x.category, y.category)

\* list.sort is stable: x goes behind the items whose key is not greater.
RECURSIVE InsertSimple(_, _)
InsertSimple(x, sorted) ==
    IF sorted = <<>> THEN <<x>>
    ELSE IF SimpleKeyLess(x, Head(sorted)) THEN <<x>> \o sorted
    ELSE <<Head(sorted)>> \o InsertSimple(x, Tail(sorted))

RECURSIVE SortSimple(_)
SortSimple(items) ==
    IF items = <<>> THEN <<>>
    ELSE InsertSimple(items[Len(items)], SortSimple(SubSeq(items, 1, Len(items) - 1)))

\* f"${cost_data['min']:,} - ${cost_data['max']:,}": the text, held as the two
\* numbers it prints.
CostString(cost_data) == <<"$", cost_data.min, " - $", cost_data.max>>

\* The ActionPlan of one gap whose category has a template.
SimpleItem(gap) ==
    LET template == remediation_templates[gap.category]
    IN  [action |-> template.title,
         category |-> gap.category,
         priority |-> IF gap.severity \in {"Critical", "High"} THEN "High" ELSE "Medium",
         timeline |-> template.timeline,
         cost_estimate |-> CostString(estimate_cost(template.effort)),
         success_criteria |-> generate_success_criteria(gap.category),
         nist_reference |-> IF gap.category \in nist_referenced THEN "own" ELSE "default"]

\* action_plans[:10]
TopTen(action_plans) == SubSeq(action_plans, 1, Min(10, Len(action_plans)))

\* Mutant: with no item to return, a general recommendation is returned.
generate_action_plan_simple_minimal(csf_gaps, system_config, overall_risk_score) ==
    LET templated == SelectSeq(csf_gaps, LAMBDA g : g.category \in DOMAIN remediation_templates)
        action_plans == [i \in 1..Len(templated) |-> SimpleItem(templated[i])]
    IN  IF action_plans = <<>>
        THEN <<[action |-> "Continue following current security practices",
                category |-> GV_OC_02, priority |-> "Medium", timeline |-> "30-60 days",
                cost_estimate |-> CostString(estimate_cost("Low")), success_criteria |-> "general",
                nist_reference |-> "default"]>>
        ELSE TopTen(SortSimple(action_plans))

generate_action_plan_simple(csf_gaps, system_config, overall_risk_score) ==
    LET templated == SelectSeq(csf_gaps, LAMBDA g : g.category \in DOMAIN remediation_templates)
        action_plans == [i \in 1..Len(templated) |-> SimpleItem(templated[i])]
    IN  TopTen(SortSimple(action_plans))

\* category.split('.')[0]
RECURSIVE BeforeDot(_)
BeforeDot(s) ==
    IF s = <<>> \/ Head(s) = "." THEN <<>> ELSE <<Head(s)>> \o BeforeDot(Tail(s))

assign_responsible_team(category) ==
    LET function == BeforeDot(category)
    IN  IF function = <<"G", "V">> THEN "Governance, Risk & Compliance (GRC)"
        ELSE IF function \in {<<"I", "D">>, <<"D", "E">>} THEN "Security Operations Center (SOC)"
        ELSE IF function = <<"R", "S">> THEN "Incident Response Team"
        ELSE IF function = <<"R", "C">> THEN "Business Continuity Team"
        ELSE "Information Security Team"

\* The dependencies of an item: the codes each of its entries names.
identify_dependencies(category, all_gaps) ==
    LET id_gaps == SelectSeq([i \in 1..Len(all_gaps) |-> all_gaps[i].category],
                             LAMBDA c : StartsWith(c, <<"I", "D", ".">>))
        lineage == Append1(category = DE_CM_07
                           /\ \E i \in 1..Len(all_gaps) : all_gaps[i].category = ID_AM_03,
                           <<>>, <<ID_AM_03>>)
    IN  Append1(StartsWith(category, <<"P", "R", ".">>) /\ id_gaps # <<>>,
                lineage, SubSeq(id_gaps, 1, Min(2, Len(id_gaps))))

external_terms ==
    << <<"a","p","i">>, <<"e","x","t","e","r","n","a","l">>, <<"s","o","c","i","a","l">>,
       <<"w","e","b">> >>

\* The recommendations made from the description alone: their categories,
\* and with the last the sources it names.
generate_system_specific_actions(system_config, risk_score) ==
    LET model_type == Lower(Get(system_config, "model_type", <<>>))
        deployment == Lower(Get(system_config, "deployment_env", <<>>))
        data_sources == Get(system_config, "data_sources", <<>>)
        external_sources == SelectSeq(data_sources, LAMBDA src : AnyIn(external_terms, Lower(src)))
        a1 == Append1(Contains(<<"n","e","u","r","a","l">>, model_type)
                      \/ Contains(<<"d","e","e","p">>, model_type),
                      <<>>, [category |-> "Model Explainability"])
        a2 == Append1(Contains(<<"c","l","o","u","d">>, deployment), a1,
                      [category |-> "Cloud Security"])
    IN  Append1(external_sources # <<>>, a2,
                [category |-> "External Data Security",
                 sources |-> SubSeq(external_sources, 1, Min(3, Len(external_sources)))])

ReductionOf(severity) ==
    IF severity = "Critical" THEN 20
    ELSE IF severity = "High" THEN 15
    ELSE IF severity = "Medium" THEN 10
    ELSE 5

\* Line 579 divides by current_score.
RaisesZeroDivision(current_score) == current_score = 0

\* Mutant: the reduction is added to the current score.
calculate_risk_reduction_added(csf_gaps, current_score) ==
    LET total_reduction == SumSeq([i \in 1..Len(csf_gaps) |-> ReductionOf(csf_gaps[i].severity)])
        max_reduction == Min(10 * total_reduction, 6 * current_score)
        projected_score == Max(10 * current_score + max_reduction, 150)
    IN  [current_risk_score |-> current_score,
         projected_risk_score |-> projected_score \div 10,
         estimated_reduction |-> max_reduction \div 10,
         reduction_percentage |-> (max_reduction * 100) \div (10 * current_score),
         target_risk_level |-> IF projected_score < 400 THEN "Low"
                               ELSE IF projected_score < 600 THEN "Medium"
                               ELSE "High"]

\* _calculate_risk_reduction for a score other than 0.  The floats are held
\* in tenths: for scores up to 100 and reductions in steps of 5 the float
\* results and their int() are those of exact arithmetic.
calculate_risk_reduction(csf_gaps, current_score) ==
    LET total_reduction == SumSeq([i \in 1..Len(csf_gaps) |-> ReductionOf(csf_gaps[i].severity)])
        max_reduction == Min(10 * total_reduction, 6 * current_score)
        projected_score == Max(10 * current_score - max_reduction, 150)
    IN  [current_risk_score |-> current_score,
         projected_risk_score |-> projected_score \div 10,
         estimated_reduction |-> max_reduction \div 10,
         reduction_percentage |-> (max_reduction * 100) \div (10 * current_score),
         target_risk_level |-> IF projected_score < 400 THEN "Low"
                               ELSE IF projected_score < 600 THEN "Medium"
                               ELSE "High"]

\* What the text of _generate_executive_summary says.
generate_executive_summary(total_gaps, risk_score, total_cost) ==
    [risk_level |-> IF risk_score >= 80 THEN "critical"
                    ELSE IF risk_score >= 60 THEN "high" ELSE "medium",
     total_gaps |-> total_gaps,
     investment |-> <<total_cost, (total_cost * 12) \div 10>>,
     projected |-> <<risk_score, Max(risk_score - 30, 15)>>,
     critical_gaps |-> 0]

severity_sort_key(severity) ==
    IF severity = "Critical" THEN 0
    ELSE IF severity = "High" THEN 1
    ELSE IF severity = "Medium" THEN 2
    ELSE IF severity = "Low" THEN 3
    ELSE 4

\* sorted(..., key=severity_sort_key) is stable.
RECURSIVE InsertBySeverity(_, _)
InsertBySeverity(x, sorted) ==
    IF sorted = <<>> THEN <<x>>
    ELSE IF severity_sort_key(x.severity) < severity_sort_key(Head(sorted).severity)
         THEN <<x>> \o sorted
    ELSE <<Head(sorted)>> \o InsertBySeverity(x, Tail(sorted))

RECURSIVE SortBySeverity(_)
SortBySeverity(items) ==
    IF items = <<>> THEN <<>>
    ELSE InsertBySeverity(items[Len(items)], SortBySeverity(SubSeq(items, 1, Len(items) - 1)))

\* The action item of one gap whose category has a template.
ActionItem(gap, csf_gaps, overall_risk_score) ==
    LET template == remediation_templates[gap.category]
    IN  [csf_category |-> gap.category,
         title |-> template.title,
         severity |-> gap.severity,
         urgency |-> calculate_urgency(gap.severity, overall_risk_score),
         effort_level |-> template.effort,
         estimated_timeline |-> template.timeline,
         estimated_cost |-> estimate_cost(template.effort),
         success_criteria |-> generate_success_criteria(gap.category),
         responsible_team |-> assign_responsible_team(gap.category),
         dependencies |-> identify_dependencies(gap.category, csf_gaps)]

\* Lines 374-379: the phase of an item.
PhaseOf(item) ==
    IF item.urgency = "Immediate" \/ item.severity = "Critical" THEN 1
    ELSE IF item.urgency = "High" \/ item.severity = "High" THEN 2
    ELSE 3

Phase(items, n, timeline) ==
    LET actions == SelectSeq(items, LAMBDA x : PhaseOf(x) = n)
    IN  [timeline |-> timeline,
         actions |-> SortBySeverity(actions),
         total_actions |-> Len(actions)]

\* What generate_action_plan returns, or that it raised.  The division of
\* line 579 is the only statement that can raise, and the last to run.
generate_action_plan(csf_gaps, system_config, overall_risk_score) ==
    LET templated == SelectSeq(csf_gaps, LAMBDA g : g.category \in DOMAIN remediation_templates)
        items == [i \in 1..Len(templated) |->
                    ActionItem(templated[i], csf_gaps, overall_risk_score)]
        total_estimated_cost == SumSeq([i \in 1..Len(items) |-> items[i].estimated_cost.max])
    IN  IF RaisesZeroDivision(overall_risk_score)
        THEN [raised |-> TRUE, error |-> "ZeroDivisionError"]
        ELSE [raised |-> FALSE,
              value |->
                [system_name |-> Get(system_config, "system_name", "Unknown System"),
                 overall_risk_score |-> overall_risk_score,
                 total_gaps |-> Len(csf_gaps),
                 estimated_total_cost |-> [min |-> (total_estimated_cost * 6) \div 10,
                                           max |-> (total_estimated_cost * 12) \div 10],
                 executive_summary |->
                    generate_executive_summary(Len(csf_gaps), overall_risk_score,
                                               total_estimated_cost),
                 implementation_phases |->
                    [phase_1_immediate |-> Phase(items, 1, "0-30 days"),
                     phase_2_short_term |-> Phase(items, 2, "30-90 days"),
                     phase_3_long_term |-> Phase(items, 3, "90+ days")],
                 system_specific_recommendations |->
                    generate_system_specific_actions(system_config, overall_risk_score),
                 risk_reduction_projection |->
                    calculate_risk_reduction(csf_gaps, overall_risk_score)]]

\* The gap lists handed to the planner: every list of up to two gaps over
\* five categories, one of them without a template, and the four severities;
\* and long lists, in which categories and severities follow two cycles.
PlanCategories == {GV_SC_01, ID_AM_03, PR_DS_06, DE_CM_07, GV_SC_04}

PlanGaps == {CSFGap(c, "", v) : c \in PlanCategories, v \in RiskLevels}

MaxGaps == 14

CycleCategories == <<PR_DS_06, GV_SC_01, DE_CM_07, GV_SC_04, ID_AM_03, RC_RP_04, DE_AE_02>>

CycleSeverities == <<"Medium", "Critical", "Low", "High">>

LongGaps(n) ==
    [i \in 1..n |-> CSFGap(CycleCategories[(i % Len(CycleCategories)) + 1], "",
                           CycleSeverities[(i % Len(CycleSeverities)) + 1])]

\* The long lists without the gaps that have no template.
TemplatedOnly(gaps) == SelectSeq(gaps, LAMBDA g : g.category \in DOMAIN remediation_templates)

GapLists ==
    {<<>>} \cup {<<g>> : g \in PlanGaps} \cup {<<g, h>> : g \in PlanGaps, h \in PlanGaps}
    \cup {LongGaps(n) : n \in 3..MaxGaps}
    \cup {TemplatedOnly(LongGaps(n)) : n \in 3..MaxGaps}

\* A description with a deployment environment and data sources.
CloudConfig ==
    HighRiskConfig
    @@ [deployment_env |-> <<"A","W","S"," ","C","l","o","u","d">>,
        data_sources |-> << <<"i","n","t","e","r","n","a","l","_","d","b">>,
                            <<"F","R","E","D","_","A","P","I">> >>,
        system_name |-> "Credit Risk Model"]

PlannerConfigs == {LowRiskConfig, HighRiskConfig, CloudConfig}

PlanScores == {0, 1, 15, 39, 40, 59, 60, 79, 80, 100}

PlanRequest(op, csf_gaps, system_config, overall_risk_score) ==
    [op |-> op, csf_gaps |-> csf_gaps, system_config |-> system_config,
     overall_risk_score |-> overall_risk_score]

PlannerRequests ==
    {PlanRequest(op, g, c, n) :
        op \in {"generate_action_plan_simple", "generate_action_plan"},
        g \in GapLists, c \in PlannerConfigs, n \in PlanScores}

\* ActionPlanner.generate_action_plan_simple returns.
PlanSimple ==
    /\ Pending("generate_action_plan_simple")
    /\ response' = [op |-> "generate_action_plan_simple", raised |-> FALSE,
                    value |-> generate_action_plan_simple(request.csf_gaps,
                                                          request.system_config,
                                                          request.overall_risk_score)]
    /\ UNCHANGED request
    /\ UNCHANGED seqVars
    /\ UNCHANGED thrVars

\* ActionPlanner.generate_action_plan returns or raises.
PlanDetailed ==
    /\ Pending("generate_action_plan")
    /\ response' = [op |-> "generate_action_plan"]
                   @@ generate_action_plan(request.csf_gaps, request.system_config,
                                           request.overall_risk_score)
    /\ UNCHANGED request
    /\ UNCHANGED seqVars
    /\ UNCHANGED thrVars

InitPlanner ==
    /\ ScorerUnused
    /\ request \in PlannerRequests
    /\ response = [op |-> "none"]

NextPlanner == PlanSimple \/ PlanDetailed

SpecPlanner == InitPlanner /\ [][NextPlanner]_vars

-----------------------------------------------------------------------------
(* The action planner: claims C15, C16, C17, C18 under SpecPlanner *)

\* The number of items in the three phases of a detailed plan.
PhasedItems(plan) ==
    plan.implementation_phases.phase_1_immediate.total_actions
    + plan.implementation_phases.phase_2_short_term.total_actions
    + plan.implementation_phases.phase_3_long_term.total_actions

\* C15 as claimed: every gap handed to the planner yields an action item,
\* a gap without a template included: the simple form returns
\* min(10, number of gaps) items, and the three phases of the detailed form
\* hold one item per gap.
C15_Claim_EveryGapYieldsItem ==
    /\ Answered("generate_action_plan_simple")
        => Len(response.value) = Min(10, Len(request.csf_gaps))
    /\ (Answered("generate_action_plan") /\ ~response.raised)
        => PhasedItems(response.value) = Len(request.csf_gaps)

\* C16 as claimed: generate_action_plan returns a plan and raises nothing,
\* for every gap list and every overall score in 0..100, score 0 included.
C16_Claim_DetailedNeverRaises ==
    Answered("generate_action_plan")
        => /\ ~response.raised
           /\ {"risk_reduction_projection", "executive_summary"} \subseteq DOMAIN response.value

\* C17: generate_action_plan_simple with the empty gap list returns the
\* empty list and raises nothing, whatever the description and the score.
C17_SimpleEmptyGivesEmpty ==
    (Answered("generate_action_plan_simple") /\ request.csf_gaps = <<>>)
        => ~response.raised /\ response.value = <<>>

C17_Witness_EmptyAtScoreZero ==
    /\ Answered("generate_action_plan_simple")
    /\ request.csf_gaps = <<>>
    /\ request.overall_risk_score = 0
    /\ request.system_config = CloudConfig
    /\ response.value = <<>>

\* The priority the claim gives a severity.
PriorityOf(severity) == IF severity \in {"Critical", "High"} THEN "High" ELSE "Medium"

\* x may stand before y: High before Medium, then category code ascending.
InOrder(x, y) ==
    \/ x.priority = "High" /\ y.priority = "Medium"
    \/ x.priority = y.priority /\ ~StrLess(y.category, x.category)

\* The items that exist for a gap list, as (category, priority) pairs: one
\* for each gap the planner has a template for.
ItemsOf(csf_gaps) ==
    LET templated == SelectSeq(csf_gaps, LAMBDA g : g.category \in DOMAIN remediation_templates)
    IN  [i \in 1..Len(templated) |->
            [category |-> templated[i].category,
             priority |-> PriorityOf(templated[i].severity)]]

\* How often a (category, priority) pair occurs in a list.
Occurrences(pair, list) ==
    Cardinality({i \in 1..Len(list) :
                    list[i].category = pair.category /\ list[i].priority = pair.priority})

-----------------------------------------------------------------------------
(* The API: the handlers of POST /assess and POST /report *)

\* Mutant: a score of exactly 80 is not yet Critical.
classify_risk_level_above(risk_score) ==
    IF risk_score > 80 THEN "Critical"
    ELSE IF risk_score >= 60 THEN "High"
    ELSE IF risk_score >= 40 THEN "Medium"
    ELSE "Low"

classify_risk_level(risk_score) ==
    IF risk_score >= 80 THEN "Critical"
    ELSE IF risk_score >= 60 THEN "High"
    ELSE IF risk_score >= 40 THEN "Medium"
    ELSE "Low"

\* any(code in cat for cat in gap_categories)
AnyCategoryHas(code, csf_gaps) ==
    \E i \in 1..Len(csf_gaps) : Contains(code, csf_gaps[i].category)

generate_recommendations(csf_gaps) ==
    LET r1 == Append1(AnyCategoryHas(<<"G","V",".","S","C">>, csf_gaps), <<>>,
                      "Develop comprehensive risk management policy")
        r2 == Append1(AnyCategoryHas(<<"P","R",".","D","S">>, csf_gaps), r1,
                      "Implement data integrity verification mechanisms")
        r3 == Append1(AnyCategoryHas(<<"D","E",".","C","M">>, csf_gaps), r2,
                      "Deploy continuous monitoring for ML model performance")
        r4 == Append1(AnyCategoryHas(<<"I","D",".","R","A">>, csf_gaps), r3,
                      "Conduct thorough risk assessment of AI system components")
    IN  IF r4 # <<>> THEN r4 ELSE <<"Continue following current security practices">>

\* AISystemRequest, and request.dict(): the five fields, no posture flag.
AISystemRequest(system_name, model_type, data_sources, deployment_env, third_party_libs) ==
    [system_name |-> system_name, model_type |-> model_type, data_sources |-> data_sources,
     deployment_env |-> deployment_env, third_party_libs |-> third_party_libs]

RequestDict(body) ==
    [k \in {"system_name", "model_type", "data_sources", "deployment_env", "third_party_libs"}
        |-> body[k]]

\* An HTTPException leaving a handler: the response has its status code.
HTTPException(status_code) == [raised |-> TRUE, status_code |-> status_code]

\* A handler that returns: status 200 and the body.
Ok(body) == [raised |-> FALSE, status_code |-> 200, body |-> body]

\* The handler of POST /assess with the multiplier the scorer got.  No call
\* in its try block raises, so the handler of line 211 is not entered.
assess_ai_system(body, answers, economic_multiplier) ==
    LET risk_assessment == assess_system(RequestDict(body), answers, economic_multiplier)
        csf_gaps == identify_gaps(RequestDict(body), risk_assessment)
        recommendations == generate_recommendations(csf_gaps)
        action_plan == generate_action_plan_simple(csf_gaps, RequestDict(body),
                                                   risk_assessment.overall_risk_score)
        risk_level == classify_risk_level(risk_assessment.overall_risk_score)
    IN  Ok([system_name |-> body.system_name,
            overall_risk_score |-> risk_assessment.overall_risk_score,
            risk_level |-> risk_level,
            csf_compliance_gaps |-> csf_gaps,
            recommended_actions |-> recommendations,
            action_plan |-> action_plan])

\* The try block of generate_report, lines 258-283.
ReportBody(body) ==
    IF body.report_format \notin {"pdf", "json"}
    THEN HTTPException(400)
    ELSE Ok([organization |-> body.organization_name,
             executive_summary |->
                [overall_risk_score |-> body.assessment_data.overall_risk_score,
                 risk_level |-> body.assessment_data.risk_level,
                 critical_gaps |->
                    Len(SelectSeq(body.assessment_data.csf_compliance_gaps,
                                  LAMBDA gap : gap.severity = "Critical")),
                 total_gaps |-> Len(body.assessment_data.csf_compliance_gaps)],
             detailed_findings |-> body.assessment_data,
             report_format |-> body.report_format])

\* The handler of POST /report: `except Exception` at line 285 catches what
\* the try block raised, the HTTPException of line 260 included.
generate_report(body) ==
    LET tried == ReportBody(body)
    IN  IF tried.raised THEN HTTPException(500) ELSE tried

\* The posture flags a client may add to the JSON body it posts.
PostedFlagKeys == FlagKeys \cup PostureKeys

PostedFlags == {[k \in {} |-> TRUE]} \cup {[k \in PostedFlagKeys |-> b] : b \in BOOLEAN}

\* The JSON bodies posted to /assess: the five fields of AISystemRequest,
\* alone or with posture flags beside them.  The handler is given the
\* AISystemRequest made of the body, which has the five fields only.
AssessBodies ==
    {flags @@ AISystemRequest("Test System", m, d[1], d[2], l) :
        flags \in PostedFlags, m \in ModelTypes, l \in LibraryLists,
        d \in { << <<>>, <<"l","o","c","a","l">> >>,
                << CloudConfig.data_sources, CloudConfig.deployment_env >> }}

\* The bodies posted to /report: the assessment of test_report_invalid_format
\* and others, with the formats "pdf" (the default), "json" and three more.
ReportFormats == {"pdf", "json", "invalid", "PDF", ""}

AssessmentData(score, risk_level, csf_gaps) ==
    [system_name |-> "Test System", overall_risk_score |-> score, risk_level |-> risk_level,
     csf_compliance_gaps |-> csf_gaps, recommended_actions |-> <<>>, action_plan |-> <<>>]

ReportBodies ==
    {[organization_name |-> "Test Organization",
      assessment_data |-> AssessmentData(n, v, g),
      report_format |-> f] :
        n \in {0, 65, 100}, v \in RiskLevels,
        g \in {<<>>, <<CSFGap(PR_DS_06, "", "Critical")>>,
               <<CSFGap(GV_SC_01, "", "High"), CSFGap(PR_DS_06, "", "Critical")>>},
        f \in ReportFormats}

Scores == 0..100

ApiRequest(op, body) == [op |-> op, body |-> body]

\* POST /assess: the scorer asks NVD and, without a fresh cache entry, FRED.
PostAssess ==
    /\ Pending("POST /assess")
    /\ LET m == get_economic_stress_multiplier(cache, fred, now, now)
       IN  /\ cache' = m.cache
           /\ response' = [op |-> "POST /assess"]
                          @@ assess_ai_system(request.body, nvd, m.value)
    /\ UNCHANGED <<config, nvd, fred, now, result, prior, request>>
    /\ UNCHANGED thrVars

\* POST /report.
PostReport ==
    /\ Pending("POST /report")
    /\ response' = [op |-> "POST /report"] @@ generate_report(request.body)
    /\ UNCHANGED request
    /\ UNCHANGED seqVars
    /\ UNCHANGED thrVars

\* _classify_risk_level applied to a score.
ClassifyRiskLevel ==
    /\ Pending("_classify_risk_level")
    /\ response' = [op |-> "_classify_risk_level", raised |-> FALSE,
                    value |-> classify_risk_level(request.body)]
    /\ UNCHANGED request
    /\ UNCHANGED seqVars
    /\ UNCHANGED thrVars

\* The module is loaded (lines 50-53); one request arrives.
InitApi ==
    /\ config = LowRiskConfig
    /\ cache = EmptyCache
    /\ now = 0
    /\ result = NoResult
    /\ prior = NoResult
    /\ NoThreads
    /\ response = [op |-> "none"]
    /\ \/ /\ request \in {ApiRequest("POST /assess", b) : b \in AssessBodies}
          /\ nvd \in NvdWorlds
          /\ fred \in ScoreWorlds
       \/ /\ request \in {ApiRequest("POST /report", b) : b \in ReportBodies}
                         \cup {ApiRequest("_classify_risk_level", n) : n \in Scores}
          /\ nvd = NvdDatabase
          /\ fred = NoKey

NextApi == PostAssess \/ PostReport \/ ClassifyRiskLevel

SpecApi == InitApi /\ [][NextApi]_vars

-----------------------------------------------------------------------------
(* The API: claims C19, C20 under SpecApi *)

\* C19 as claimed: POST /report with a report_format other than "pdf" or
\* "json" is answered with status 400, a client error and not a 500,
\* whatever the rest of the valid body.
C19_Claim_InvalidFormatIs400 ==
    (Answered("POST /report") /\ request.body.report_format \notin {"pdf", "json"})
        => response.status_code = 400

\* The level the documented thresholds give a score.
DocumentedLevels(score) ==
    {v \in RiskLevels :
        /\ v = "Critical" <=> score >= 80
        /\ v = "High" <=> (60 <= score /\ score < 80)
        /\ v = "Medium" <=> (40 <= score /\ score < 60)
        /\ v = "Low" <=> score < 40}

\* C20: for every score from 0 to 100 _classify_risk_level returns the one
\* level the documented thresholds give it (Critical iff score >= 80, High
\* iff 60 <= score < 80, Medium iff 40 <= score < 60, Low iff score < 40),
\* and the risk_level of an assessment returned by POST /assess is that
\* level of the overall_risk_score returned with it.
C20_RiskLevelMatchesThresholds ==
    /\ Answered("_classify_risk_level")
        => ~response.raised /\ DocumentedLevels(request.body) = {response.value}
    /\ Answered("POST /assess")
        => /\ response.status_code = 200
           /\ DocumentedLevels(response.body.overall_risk_score) = {response.body.risk_level}

\* An assessment returned with a score of exactly 80 and the level Critical.
C20_Witness_CriticalAtEighty ==
    /\ Answered("POST /assess")
    /\ response.body.overall_risk_score = 80
    /\ response.body.risk_level = "Critical"

-----------------------------------------------------------------------------
(* The defaults of the posture flags: claim C21 under SpecScore *)

\* The default the documentation gives each posture flag of the scorer.
DocumentedDefault(flag) == flag \in {"data_encryption", "access_controls"}

\* The description with every flag it does not give set to its documented
\* default.
WithDocumentedDefaults(cfg) ==
    [k \in DOMAIN cfg \cup FlagKeys |->
        IF k \in DOMAIN cfg THEN cfg[k] ELSE DocumentedDefault(k)]

\* What a flag contributes to the base score when it is false.
FlagWeight(flag) ==
    IF flag = "data_lineage_documented" THEN 20
    ELSE IF flag = "drift_monitoring_enabled" THEN 25
    ELSE IF flag = "data_encryption" THEN 10
    ELSE 5

\* The base score without what the flags contribute.
OtherContributions(cfg, answers) ==
    (IF AnyIn(black_box_terms, Lower(cfg["model_type"])) THEN 15 ELSE 0)
    + assess_third_party_risk(Libraries(cfg), answers)

\* C21: an absent data_encryption or access_controls flag counts as true
\* and contributes 0, an absent data_lineage_documented or
\* drift_monitoring_enabled flag counts as false and contributes 20 and 25:
\* the base score is that of the description with its absent flags given
\* their documented defaults, and a description with no flags, no black-box
\* term and no libraries has base score 45.
C21_AbsentFlagsTakeDefaults ==
    result.called =>
        LET cfg == result.config
            full == WithDocumentedDefaults(cfg)
        IN  /\ result.base_score
                = SumSeq([i \in 1..4 |->
                            LET flag == <<"data_lineage_documented", "drift_monitoring_enabled",
                                          "data_encryption", "access_controls">>[i]
                            IN  IF full[flag] THEN 0 ELSE FlagWeight(flag)])
                  + OtherContributions(cfg, nvd)
            /\ (DOMAIN cfg \cap FlagKeys = {} /\ OtherContributions(cfg, nvd) = 0)
                => result.base_score = 45

\* A description with no flags, a linear model and no libraries, assessed
\* with base score 45.
C21_Witness_NoFlagsScoreFortyFive ==
    /\ result.called
    /\ DOMAIN result.config \cap FlagKeys = {}
    /\ result.config["model_type"] = ModelLinear
    /\ Libraries(result.config) = <<>>
    /\ result.base_score = 45

-----------------------------------------------------------------------------
(* The third-party contribution: claim C22 under SpecLibs *)

\* The library lists handed to _assess_third_party_risk: up to MaxLibs
\* libraries, the first few of one name and the rest of another.
MaxLibs == 16

ManyLibraries ==
    {[i \in 1..n |-> IF i <= k THEN a ELSE b] :
        n \in 0..MaxLibs, k \in 0..5, a \in LibNames, b \in LibNames}

\* _assess_third_party_risk returns.
AssessThirdParty ==
    /\ Pending("_assess_third_party_risk")
    /\ response' = [op |-> "_assess_third_party_risk", raised |-> FALSE,
                    value |-> assess_third_party_risk(request.libraries, nvd)]
    /\ UNCHANGED request
    /\ UNCHANGED seqVars
    /\ UNCHANGED thrVars

InitLibs ==
    /\ config = LowRiskConfig
    /\ nvd \in NvdWorlds
    /\ fred = NoKey
    /\ cache = EmptyCache
    /\ now = 0
    /\ result = NoResult
    /\ prior = NoResult
    /\ NoThreads
    /\ request \in {[op |-> "_assess_third_party_risk", libraries |-> l] : l \in ManyLibraries}
    /\ response = [op |-> "none"]

NextLibs == AssessThirdParty

SpecLibs == InitLibs /\ [][NextLibs]_vars

\* The score the lookup gives the i-th library of the request.
ScoreOfLibrary(i) ==
    get_library_vulnerability_score(request.libraries[i], nvd[request.libraries[i]])

\* S: the sum of the per-library scores.
RECURSIVE ScoreSum(_)
ScoreSum(n) == IF n = 0 THEN 0 ELSE ScoreSum(n - 1) + ScoreOfLibrary(n)

\* V: the volume penalty.
VolumePenalty(count) ==
    IF count > 15 THEN 5 ELSE IF count > 10 THEN 3 ELSE IF count > 5 THEN 1 ELSE 0

\* C: the concentration penalty.
ConcentrationPenalty(high_risk) == IF high_risk > 3 THEN 3 ELSE IF high_risk > 1 THEN 1 ELSE 0

\* C22: the third-party contribution is min(20, S + V + C) with S the sum
\* of the per-library scores, V the volume penalty and C the concentration
\* penalty; it is in 0..20, and 0 for the empty library list.
C22_ThirdPartyContribution ==
    Answered("_assess_third_party_risk") =>
        LET n == Len(request.libraries)
            high_risk == Cardinality({i \in 1..n : ScoreOfLibrary(i) >= 5})
            total == ScoreSum(n) + VolumePenalty(n) + ConcentrationPenalty(high_risk)
        IN  /\ response.value = (IF total < 20 THEN total ELSE 20)
            /\ response.value \in 0..20
            /\ n = 0 => response.value = 0

\* Sixteen libraries that score 0 each: the contribution is the volume
\* penalty of 5.
C22_Witness_VolumePenaltyAlone ==
    /\ Answered("_assess_third_party_risk")
    /\ Len(request.libraries) = 16
    /\ ScoreSum(16) = 0
    /\ response.value = 5

-----------------------------------------------------------------------------
(* get_risk_breakdown, and the scorer on descriptions with heavy libraries *)

is_black_box_model(model_type) ==
    AnyIn(<< <<"n","e","u","r","a","l">>, <<"d","e","e","p">>, <<"b","l","a","c","k">>,
             <<"e","n","s","e","m","b","l","e">> >>, Lower(model_type))

assess_data_security(system_config) ==
    (IF ~Get(system_config, "data_encryption", TRUE) THEN 10 ELSE 0)
    + (IF ~Get(system_config, "access_controls", TRUE) THEN 5 ELSE 0)

get_economic_description(multiplier) ==
    IF multiplier >= 2 * Unit THEN "Crisis-level economic stress"
    ELSE IF multiplier >= 1500 THEN "High economic stress"
    ELSE IF multiplier >= 1200 THEN "Moderate economic stress"
    ELSE "Normal economic conditions"

\* Lines 423-439, given the multiplier the assess_system call of line 423
\* obtained.  system_config.get(flag) without a default gives None for an
\* absent flag, which `not` takes as False does.
get_risk_breakdown(system_config, answers, economic_multiplier) ==
    LET assessment == assess_system(system_config, answers, economic_multiplier)
    IN  [overall_score |-> assessment.overall_risk_score,
         risk_factors |-> assessment.risk_factors,
         factor_scores |->
            [data_lineage |->
                IF ~Get(system_config, "data_lineage_documented", FALSE) THEN 20 ELSE 0,
             model_explainability |->
                IF is_black_box_model(Get(system_config, "model_type", <<>>)) THEN 15 ELSE 0,
             drift_monitoring |->
                IF ~Get(system_config, "drift_monitoring_enabled", FALSE) THEN 25 ELSE 0,
             third_party_risk |->
                assess_third_party_risk(Get(system_config, "third_party_libs", <<>>), answers),
             data_security |-> assess_data_security(system_config)],
         economic_context |->
            [multiplier |-> assessment.economic_multiplier,
             description |-> get_economic_description(assessment.economic_multiplier)]]

\* Descriptions whose libraries reach the clamp of the third-party
\* contribution.
HeavyLibraryLists ==
    { <<>>,
      <<LibDjangoPandas, LibUnknown1>>,
      <<LibTensorFlow, LibPyTorch, LibOpenCV, LibTensorFlow>> }

HeavyConfigs ==
    {Description(flags, m, l) :
        flags \in UNION {[D -> BOOLEAN] : D \in FlagDomains},
        m \in ModelTypes, l \in HeavyLibraryLists}

\* get_risk_breakdown(system_config) returns.
RiskBreakdown ==
    /\ Pending("get_risk_breakdown")
    /\ LET m == get_economic_stress_multiplier(cache, fred, now, now)
       IN  /\ cache' = m.cache
           /\ response' = [op |-> "get_risk_breakdown", raised |-> FALSE,
                           value |-> get_risk_breakdown(request.system_config, nvd, m.value)]
    /\ UNCHANGED <<config, nvd, fred, now, result, prior, request>>
    /\ UNCHANGED thrVars

InitBreakdown ==
    /\ config \in HeavyConfigs
    /\ nvd \in NvdWorlds
    /\ fred \in ScoreWorlds
    /\ cache = EmptyCache
    /\ now = 0
    /\ result = NoResult
    /\ prior = NoResult
    /\ NoThreads
    /\ request = [op |-> "get_risk_breakdown", system_config |-> config]
    /\ response = [op |-> "none"]

NextBreakdown == Assess(fred) \/ RiskBreakdown

SpecBreakdown == InitBreakdown /\ [][NextBreakdown]_vars

\* The note of line 102.
DesignNote == Factor("Note: Base risk factors exceed design parameters")

\* C23: in every assessment the base score, the sum of the fixed
\* contributions 20, 15, 25, 10, 5 and the third-party contribution, is at
\* most 95, so never above 100, and the note about exceeding the design
\* parameters is never among the risk factors.
C23_BaseScoreAtMostNinetyFive ==
    result.called =>
        /\ result.base_score \in 0..95
        /\ \A i \in 1..Len(result.risk_factors) : result.risk_factors[i] # DesignNote

\* An assessment in which every contribution is at its maximum.
C23_Witness_BaseScoreNinetyFive ==
    /\ result.called
    /\ result.base_score = 95
    /\ SumSeq(result.library_scores) > 20

\* The sum of the factor scores of a breakdown.
FactorSum(factor_scores) ==
    factor_scores.data_lineage + factor_scores.model_explainability
    + factor_scores.drift_monitoring + factor_scores.third_party_risk
    + factor_scores.data_security

\* C30 as claimed: the overall_score of a breakdown is
\* min(100, int(sum of its factor_scores * multiplier)), each factor score
\* being what that factor contributed to the overall score, also for a
\* model type that only one of the two term lists matches.
C30_Claim_BreakdownSumsToOverall ==
    Answered("get_risk_breakdown") =>
        LET b == response.value
            product == IntOfProduct(FactorSum(b.factor_scores), b.economic_context.multiplier)
        IN  b.overall_score = (IF product < 100 THEN product ELSE 100)

-----------------------------------------------------------------------------
(* The severity of a mapped category: claim C24 under SpecMapper *)

\* The levels the documented rule gives a code and a base score.
DocumentedSeverities(code, base_score) ==
    LET critical == code \in {GV_SC_01, PR_DS_06, ID_RA_01} /\ base_score > 30
        high == code \in {DE_CM_07, GV_SC_04, PR_DS_08} \/ base_score > 25
        medium == base_score > 15
    IN  {v \in RiskLevels :
            /\ v = "Critical" <=> critical
            /\ v = "High" <=> (~critical /\ high)
            /\ v = "Medium" <=> (~critical /\ ~high /\ medium)
            /\ v = "Low" <=> (~critical /\ ~high /\ ~medium)}

\* C24: each category map_risk_to_csf returns for a risk type of the
\* catalog has the severity of the documented rule: Critical for a code of
\* GV.SC-01, PR.DS-06, ID.RA-01 with base score above 30; otherwise High for
\* a code of DE.CM-07, GV.SC-04, PR.DS-08 or a base score above 25;
\* otherwise Medium for a base score above 15; otherwise Low; the rule gives
\* every pair of code and base score exactly one level.
C24_MappedSeverityFollowsRule ==
    (Answered("map_risk_to_csf") /\ response.value # None) =>
        LET entry == request.ai_risks["ai_risk_categories"][request.risk_type]
            categories == response.value[1].categories
        IN  \A i \in 1..Len(categories) :
                /\ Cardinality(DocumentedSeverities(categories[i].code,
                                                    entry.base_risk_score)) = 1
                /\ DocumentedSeverities(categories[i].code, entry.base_risk_score)
                    = {categories[i].severity}

\* A risk type of base score 30 mapped to PR.DS-06, DE.CM-07 and PR.DS-11:
\* High at each, the first by the score and not Critical.
C24_Witness_HighAtThirty ==
    /\ Answered("map_risk_to_csf")
    /\ response.value # None
    /\ request.ai_risks["ai_risk_categories"][request.risk_type].base_risk_score = 30
    /\ Len(response.value[1].categories) = 3
    /\ response.value[1].categories[1].code = PR_DS_06
    /\ \A i \in 1..3 : response.value[1].categories[i].severity = "High"

-----------------------------------------------------------------------------
(* The rules of identify_gaps: claim C25 under SpecMapper *)

\* The five rules in their order: the category each emits and, but for the
\* last, its severity.
RuleCategories == <<GV_SC_01, ID_AM_03, DE_CM_07, ID_SC_04, PR_DS_06>>

RuleSeverities == <<"High", "Medium", "High", "Medium">>

\* A flag that is true in the description.
FlagSet(cfg, flag) == flag \in DOMAIN cfg /\ cfg[flag] = TRUE

\* The condition of the n-th rule, on the description alone.
RuleFires(n, cfg) ==
    IF n = 1 THEN ~FlagSet(cfg, "supply_chain_policy")
    ELSE IF n = 2 THEN ~FlagSet(cfg, "data_lineage_documented")
    ELSE IF n = 3 THEN ~FlagSet(cfg, "drift_monitoring_enabled")
    ELSE IF n = 4 THEN cfg["third_party_libs"] # <<>> /\ ~FlagSet(cfg, "vendor_assessment")
    ELSE ~FlagSet(cfg, "data_integrity_checks")

\* The positions of a gap list that hold the category of the n-th rule.
GapsOfRule(n, gaps) == {i \in 1..Len(gaps) : gaps[i].category = RuleCategories[n]}

\* C25: each of the five rules of identify_gaps fires if and only if its
\* own condition holds, whatever the other flags are, and then emits one
\* gap; the gaps are in the order GV.SC-01, ID.AM-03, DE.CM-07, ID.SC-04,
\* PR.DS-06; and the gaps other than PR.DS-06 have the severities High,
\* Medium, High, Medium at every overall score.
C25_GapRulesIndependent ==
    Answered("identify_gaps") =>
        LET gaps == response.value
            cfg == request.system_config
        IN  /\ \A n \in 1..5 :
                Cardinality(GapsOfRule(n, gaps)) = (IF RuleFires(n, cfg) THEN 1 ELSE 0)
            /\ \A i \in 1..Len(gaps) : \E n \in 1..5 : i \in GapsOfRule(n, gaps)
            /\ \A m \in 1..5 : \A n \in (m + 1)..5 :
                \A i \in GapsOfRule(m, gaps) : \A j \in GapsOfRule(n, gaps) : i < j
            /\ \A n \in 1..4 : \A i \in GapsOfRule(n, gaps) :
                gaps[i].severity = RuleSeverities[n]

\* All five rules fired in one call, at a score that makes the last gap
\* Critical.
C25_Witness_AllFiveGaps ==
    /\ Answered("identify_gaps")
    /\ Len(response.value) = 5
    /\ [i \in 1..5 |-> response.value[i].category] = RuleCategories
    /\ [i \in 1..5 |-> response.value[i].severity]
        = <<"High", "Medium", "High", "Medium", "Critical">>

-----------------------------------------------------------------------------
(* Urgency and phases: claim C26 under SpecPlanner *)

\* The urgency the documented rule gives a severity and a score.
DocumentedUrgency(severity, score) ==
    IF severity = "Critical" \/ score >= 80 THEN "Immediate"
    ELSE IF severity = "High" \/ score >= 60 THEN "High"
    ELSE IF severity = "Medium" \/ score >= 40 THEN "Medium"
    ELSE "Low"

\* The gaps the detailed planner processes: those it has a template for.
ProcessedGaps(csf_gaps) ==
    SelectSeq(csf_gaps, LAMBDA g : g.category \in DOMAIN remediation_templates)

\* How many processed gaps of a list the documented rule gives an urgency
\* of a set.
GapsWithUrgency(csf_gaps, score, urgencies) ==
    Cardinality({i \in 1..Len(ProcessedGaps(csf_gaps)) :
                    DocumentedUrgency(ProcessedGaps(csf_gaps)[i].severity, score)
                        \in urgencies})

\* C26: in a detailed plan every item has the urgency of the documented
\* rule; the processed gaps of urgency Immediate are in phase 1 (0-30 days),
\* those of urgency High in phase 2 (30-90 days) and the others in phase 3
\* (90+ days), each gap in one phase, so the phase sizes sum to the number
\* of processed gaps; phase 3 holds only gaps of severity Medium or Low, and
\* only when the score is below 60.
C26_UrgencyDecidesPhase ==
    (Answered("generate_action_plan") /\ ~response.raised) =>
        LET phases == response.value.implementation_phases
            p1 == phases.phase_1_immediate
            p2 == phases.phase_2_short_term
            p3 == phases.phase_3_long_term
            score == request.overall_risk_score
            gaps == request.csf_gaps
        IN  /\ p1.timeline = "0-30 days" /\ p2.timeline = "30-90 days"
            /\ p3.timeline = "90+ days"
            /\ \A p \in {p1, p2, p3} :
                /\ p.total_actions = Len(p.actions)
                /\ \A i \in 1..Len(p.actions) :
                    p.actions[i].urgency = DocumentedUrgency(p.actions[i].severity, score)
            /\ \A i \in 1..Len(p1.actions) : p1.actions[i].urgency = "Immediate"
            /\ \A i \in 1..Len(p2.actions) : p2.actions[i].urgency = "High"
            /\ \A i \in 1..Len(p3.actions) :
                /\ p3.actions[i].urgency \in {"Medium", "Low"}
                /\ p3.actions[i].severity \in {"Medium", "Low"}
                /\ score < 60
            /\ p1.total_actions = GapsWithUrgency(gaps, score, {"Immediate"})
            /\ p2.total_actions = GapsWithUrgency(gaps, score, {"High"})
            /\ p3.total_actions = GapsWithUrgency(gaps, score, {"Medium", "Low"})
            /\ p1.total_actions + p2.total_actions + p3.total_actions
                = Len(ProcessedGaps(gaps))

\* A plan at score 59 with a gap in each phase.
C26_Witness_ThreePhases ==
    /\ Answered("generate_action_plan")
    /\ ~response.raised
    /\ request.overall_risk_score = 59
    /\ response.value.implementation_phases.phase_1_immediate.total_actions > 0
    /\ response.value.implementation_phases.phase_2_short_term.total_actions > 0
    /\ response.value.implementation_phases.phase_3_long_term.total_actions > 0

-----------------------------------------------------------------------------
(* The risk-reduction projection: claims C27, C28 under SpecPlanner *)

\* The points of reduction the documentation gives a severity.
DocumentedReduction(severity) ==
    IF severity = "Critical" THEN 20
    ELSE IF severity = "High" THEN 15
    ELSE IF severity = "Medium" THEN 10
    ELSE 5

RECURSIVE ReductionSum(_)
ReductionSum(csf_gaps) ==
    IF csf_gaps = <<>> THEN 0
    ELSE DocumentedReduction(Head(csf_gaps).severity) + ReductionSum(Tail(csf_gaps))

\* C27 as claimed: for every gap list and every current score in 0..100 the
\* projection reports estimated_reduction = min(sum of the reductions of
\* all gaps, 60% of the current score) and projected_risk_score =
\* max(current score - that reduction, 15); the reduction is at most 60% of
\* the current score and the projected score at least 15.  (The two sides
\* of each equation are compared in tenths.)
C27_Claim_ReductionIsCappedSum ==
    Answered("generate_action_plan") =>
        /\ ~response.raised
        /\ LET projection == response.value.risk_reduction_projection
               current == request.overall_risk_score
               total == 10 * ReductionSum(request.csf_gaps)
               reduction == IF total < 6 * current THEN total ELSE 6 * current
               projected == IF 10 * current - reduction > 150
                            THEN 10 * current - reduction ELSE 150
           IN  /\ 10 * projection.estimated_reduction = reduction
               /\ 10 * projection.projected_risk_score = projected
               /\ 10 * projection.estimated_reduction <= 6 * current
               /\ projection.projected_risk_score >= 15

\* C28 as claimed: in every plan generate_action_plan produces the
\* projected_risk_score is at most the current_risk_score.
C28_Claim_ProjectionNeverRaises ==
    (Answered("generate_action_plan") /\ ~response.raised) =>
        response.value.risk_reduction_projection.projected_risk_score
            <= response.value.risk_reduction_projection.current_risk_score

\* C28 amended: the projected_risk_score is at most the current score when
\* the current score is 15 or more, and is the floor of 15 when the
\* current score is below 15.
C28_ProjectionAtMostCurrentOrFloor ==
    (Answered("generate_action_plan") /\ ~response.raised) =>
        LET projection == response.value.risk_reduction_projection
        IN  /\ projection.current_risk_score = request.overall_risk_score
            /\ projection.current_risk_score >= 15
                => projection.projected_risk_score <= projection.current_risk_score
            /\ projection.current_risk_score < 15 => projection.projected_risk_score = 15

\* A plan for score 1 with no gap: the projected score is 15.
C28_Witness_FloorAboveCurrent ==
    /\ Answered("generate_action_plan")
    /\ ~response.raised
    /\ request.csf_gaps = <<>>
    /\ response.value.risk_reduction_projection.current_risk_score = 1
    /\ response.value.risk_reduction_projection.projected_risk_score = 15

-----------------------------------------------------------------------------
(* Posture flags through POST /assess: claim C29 under SpecApi *)

\* The body declares every control in place.
AllControlsDeclared(body) ==
    \A k \in PostedFlagKeys : k \in DOMAIN body /\ body[k] = TRUE

\* C29 as claimed: the posture flags of a request to POST /assess reach the
\* scorer and the gap mapper: a request that declares all controls in place
\* gets no lineage, drift-monitoring, supply-chain or data-integrity gap,
\* and its score is that of the description it posted, without the 45 base
\* points of undocumented lineage and missing drift monitoring.
C29_Claim_PostedFlagsCount ==
    (Answered("POST /assess") /\ AllControlsDeclared(request.body)) =>
        /\ GapCategories(response.body.csf_compliance_gaps)
            \cap {ID_AM_03, DE_CM_07, GV_SC_01, PR_DS_06} = {}
        /\ response.body.overall_risk_score
            = assess_system(request.body, nvd, CachedStress(cache)).overall_risk_score

=============================================================================
